---- MODULE Spec2Model ----
(***************************************************************************)
(* pinpoint-eda: the scan orchestration engine.                            *)
(*                                                                         *)
(*   checkpoint.py     CheckpointManager  (the resume ledger and its file) *)
(*   executor.py       ScanExecutor       (fan-out and the shutdown flag)  *)
(*   scanners/__init__ SCANNER_ORDER, SCANNER_REGISTRY, get_active_scanners*)
(*   _orchestrator.py  Orchestrator       (run, the loops, SIGINT handler) *)
(*                                                                         *)
(* Two specifications share the checkpoint operators:                      *)
(*   SpecStore  a harness that calls the CheckpointManager's methods in    *)
(*              any order and replaces the manager by a new one;           *)
(*   Spec       the orchestrator: one process after another on the same    *)
(*              output directory, each with its threads and its signals.   *)
(***************************************************************************)
EXTENDS Integers, Sequences, FiniteSets, TLC

VARIABLES
    \* ---- CheckpointManager and its file
    state,          \* CheckpointManager._state
    disk,           \* the file output_dir/.pinpoint-eda-checkpoint.json
    config_hash,    \* CheckpointManager._config_hash
    uuids,          \* how many run ids uuid.uuid4() has handed out
    raised,         \* the exception that ended the last call / the run
    lastOp,         \* SpecStore: the method called last, with its key
    lastSaved,      \* the in-memory state at the last _save()
    \* ---- the process
    runs,           \* how many processes (managers) were started
    config,         \* ScanConfig of the running process
    shutdown,       \* ScanExecutor._shutdown_event
    ctrl_c_count,   \* Orchestrator._ctrl_c_count
    pc,             \* where the main thread is in Orchestrator.run
    acct,           \* index into config.accounts of the account loop
    regionsTodo,    \* rest of `for region, app_ids in regions_with_apps.items()`
    toSubmit,       \* rest of `for item in items` in map_parallel
    queue,          \* submitted futures no worker has started
    running,        \* app_id -> [idx, pc] of the futures being executed
    asIdx,          \* index into account_scanners of the sequential loop
    reports,        \* how many times generate_report has written a report
    exitCode,       \* -1 while the process runs, then its exit status
    \* ---- history (not program state)
    loaded,         \* completed / in_progress / errors as initialize() left them
    ulog,           \* <<account index, key>> -> what happened to that unit
    sigPc,          \* where the main thread was at the first SIGINT
    stopped,        \* the units whose loop-boundary check saw the flag set
    found,          \* found[i]: the region map account i was scanned with
    \* -- _save step by step, under threads and I/O failures
    tmp,            \* the temp file next to the checkpoint file
    lock,           \* CheckpointManager._lock: its holder, or "none"
    calls,          \* per thread: the store call it is in and its position
    faults,         \* the number of OSErrors the file system has raised
    \* -- ScanExecutor.map_parallel
    call,           \* the arguments: items, the items func raises for, workers
    futures,        \* future_to_item: the futures submitted, in order
    results,        \* the list map_parallel builds
    \* -- RateLimiter
    limiter,        \* _tokens, _last_refill, _total_calls
    clock,          \* time.monotonic()
    acq             \* per thread: its position in acquire()

storeVars == <<state, disk, config_hash, uuids, raised, lastOp, lastSaved, runs>>
procVars == <<config, shutdown, ctrl_c_count, pc, acct, regionsTodo, toSubmit,
              queue, running, asIdx, reports, exitCode>>
procVarsButRunning == <<config, shutdown, ctrl_c_count, pc, acct, regionsTodo,
                        toSubmit, queue, asIdx, reports, exitCode>>
histVars == <<loaded, ulog, sigPc, stopped, found>>
saveVars == <<tmp, lock, calls, faults>>
mapVars == <<call, futures, results>>
limVars == <<limiter, clock, acq>>
auxVars == <<saveVars, mapVars, limVars>>
vars == <<storeVars, procVars, histVars, auxVars>>

(***************************************************************************)
(* Bounds of the model.                                                    *)
(***************************************************************************)
MaxRuns == 2        \* processes (or managers) started one after another
MaxErrors == 1      \* entries of the checkpoint's error list
MaxFaults == 1      \* OSErrors the file system raises

(***************************************************************************)
(* Small finite maps (Python dicts).                                       *)
(***************************************************************************)
EmptyMap == [x \in {} |-> 0]

Put(m, k, v) == [x \in (DOMAIN m) \cup {k} |-> IF x = k THEN v ELSE m[x]]

SeqToSet(s) == {s[i] : i \in 1..Len(s)}

\* list.remove(x): drops the first occurrence
RECURSIVE ListRemove(_, _)
ListRemove(s, x) ==
    IF s = <<>> THEN <<>>
    ELSE IF Head(s) = x THEN Tail(s)
    ELSE <<Head(s)>> \o ListRemove(Tail(s), x)

(***************************************************************************)
(* Scanner registry.                                                       *)
(***************************************************************************)
SCANNER_ORDER ==
    << "applications", "settings", "channels", "segments", "campaigns",
       "journeys", "templates", "event_streams", "jobs", "kpis",
       "recommenders", "sms_voice_v2" >>

\* the place of a scanner in SCANNER_ORDER
Priority(s) == CHOOSE i \in 1..Len(SCANNER_ORDER) : SCANNER_ORDER[i] = s

\* SCANNER_REGISTRY[s].per_app
PerApp(s) == s \notin {"templates", "recommenders", "sms_voice_v2"}

Member(selected, s) == s \in SeqToSet(selected)

get_active_scanners_AsListed(selected, no_sms_voice_v2) ==
    IF selected # <<>>
    THEN selected
    ELSE IF no_sms_voice_v2
         THEN SelectSeq(SCANNER_ORDER, LAMBDA s : s # "sms_voice_v2")
         ELSE SCANNER_ORDER

\* get_active_scanners(): SCANNER_ORDER filtered by the selection
get_active_scanners(selected, no_sms_voice_v2) ==
    IF selected # <<>>
    THEN SelectSeq(SCANNER_ORDER, LAMBDA s : Member(selected, s))
    ELSE IF no_sms_voice_v2
         THEN SelectSeq(SCANNER_ORDER, LAMBDA s : s # "sms_voice_v2")
         ELSE SCANNER_ORDER

(***************************************************************************)
(* Work keys.  ck_key = f"{scanner_name}:{region}:{app_id}"; the three     *)
(* parts are kept as a tuple (no name, region or id holds a colon).        *)
(***************************************************************************)
CkKey(scanner_name, region, app_id) == <<scanner_name, region, app_id>>

AccountKey(scanner_name, region) == CkKey(scanner_name, region, "account")

(***************************************************************************)
(* Scan results and their JSON form.  A result's `resources` come from     *)
(* the remote API: "plain" stands for JSON-native data, "datetime" for     *)
(* data holding a datetime object (sms_voice_v2's describe_* responses),   *)
(* which json.dump(..., default=str) writes as its str().                  *)
(***************************************************************************)
Payloads == {"plain", "datetime"}

ScanResult(scanner_name, region, app_id, payload) ==
    [ scanner_name |-> scanner_name, region |-> region, app_id |-> app_id,
      resource_count |-> 1, resources |-> payload ]

\* json's default=str hook on one value
JsonDefault(v) == IF v = "datetime" THEN "str(datetime)" ELSE v

JsonResult(r) == [r EXCEPT !.resources = JsonDefault(@)]

\* json.dump(self._state, f, indent=2, default=str)
JsonDump(st) ==
    [st EXCEPT !.scan_results = [k \in DOMAIN @ |-> JsonResult(@[k])]]

\* json.load(f): the document's own values (all of them JSON-native)
JsonLoad(doc) ==
    [ run_id |-> doc.run_id, config_hash |-> doc.config_hash,
      discovered_regions |-> doc.discovered_regions,
      completed |-> doc.completed, in_progress |-> doc.in_progress,
      errors |-> doc.errors, scan_results |-> doc.scan_results ]

(***************************************************************************)
(* CheckpointManager.                                                      *)
(***************************************************************************)
\* self._state = {}  (every .get() of it answers its default)
EmptyDict ==
    [ run_id |-> 0, config_hash |-> <<>>, discovered_regions |-> <<>>,
      completed |-> EmptyMap, in_progress |-> <<>>, errors |-> <<>>,
      scan_results |-> EmptyMap ]

\* a file: `complete` says that its content is a whole JSON document that
\* open() and json.load() can read
NoFile == [exists |-> FALSE, doc |-> EmptyDict, complete |-> TRUE]

\* variant: a fresh state that takes the run id of the first run
FreshState_ReusedRunId(run_id, hash) ==
    [ run_id |-> 1, config_hash |-> hash, discovered_regions |-> <<>>,
      completed |-> EmptyMap, in_progress |-> <<>>, errors |-> <<>>,
      scan_results |-> EmptyMap ]

\* the state initialize() builds when it does not resume
FreshState(run_id, hash) ==
    [ run_id |-> run_id, config_hash |-> hash, discovered_regions |-> <<>>,
      completed |-> EmptyMap, in_progress |-> <<>>, errors |-> <<>>,
      scan_results |-> EmptyMap ]

\* variant: a file renamed into place before its content is all written
Saved_Unflushed(st) == [exists |-> TRUE, doc |-> JsonDump(st), complete |-> FALSE]

\* _save: the temp file is written and renamed over the checkpoint file
Saved(st) == [exists |-> TRUE, doc |-> JsonDump(st), complete |-> TRUE]

\* _load
Loaded(file) == JsonLoad(file.doc)

\* variant: a _load that reads whatever the file holds
LoadOutcome_Lenient(file) == "ok"

\* _load: open() or json.load() failing is raised as CheckpointError
LoadOutcome(file) == IF file.complete THEN "ok" ELSE "CheckpointError"

is_completed_OrStarted(st, key) == key \in DOMAIN st.completed \/ key \in SeqToSet(st.in_progress)
\* is_completed(): membership in completed only
is_completed(st, key) == key \in DOMAIN st.completed

\* variant: a checkpoint that hands out no cached region map
get_discovered_regions_Forgets(st) == <<>>

\* get_discovered_regions(): the cached region -> app ids map
get_discovered_regions(st) == st.discovered_regions

get_scan_results(st) == st.scan_results

DoSetDiscoveredRegions(st, regions) ==
    [st EXCEPT !.discovered_regions = regions]

\* variant: a mark_in_progress that appends the key whatever the list holds
DoMarkInProgress_Appends(st, key) ==
    [st EXCEPT !.in_progress = Append(@, key)]

DoMarkInProgress(st, key) ==
    IF key \in SeqToSet(st.in_progress)
    THEN st
    ELSE [st EXCEPT !.in_progress = Append(@, key)]

\* variant: mark_completed that leaves the key in in_progress
DoMarkCompleted_KeepsInProgress(st, key, resource_count, result) ==
    [st EXCEPT
        !.completed = Put(@, key, [resource_count |-> resource_count]),
        !.scan_results = IF result # <<>> THEN Put(@, key, result[1]) ELSE @]

\* result is <<>> for None, <<r>> for a value
DoMarkCompleted(st, key, resource_count, result) ==
    [st EXCEPT
        !.in_progress = ListRemove(@, key),
        !.completed = Put(@, key, [resource_count |-> resource_count]),
        !.scan_results = IF result # <<>> THEN Put(@, key, result[1]) ELSE @]

\* variant: mark_error that also records the key as completed
DoMarkError_Completes(st, key, error) ==
    [st EXCEPT
        !.in_progress = ListRemove(@, key),
        !.completed = Put(@, key, [resource_count |-> 0]),
        !.errors = Append(@, [key |-> key, error |-> error])]

DoMarkError(st, key, error) ==
    [st EXCEPT
        !.in_progress = ListRemove(@, key),
        !.errors = Append(@, [key |-> key, error |-> error])]

\* variant: a resume that gives the loaded state a new run id
DoInitialize_NewRunId(st, file, hash, resume, new_id) ==
    IF resume /\ file.exists
    THEN IF LoadOutcome(file) # "ok"
         THEN <<st, file, LoadOutcome(file)>>
         ELSE IF Loaded(file).config_hash # hash
         THEN <<Loaded(file), file, "ConfigMismatchError">>
         ELSE <<[Loaded(file) EXCEPT !.run_id = new_id], file, "none">>
    ELSE <<FreshState(new_id, hash), Saved(FreshState(new_id, hash)), "none">>

\* initialize(resume): <<the new _state, the file, the exception raised>>
DoInitialize(st, file, hash, resume, new_id) ==
    IF resume /\ file.exists
    THEN IF LoadOutcome(file) # "ok"
         THEN <<st, file, LoadOutcome(file)>>
         ELSE IF Loaded(file).config_hash # hash
         THEN <<Loaded(file), file, "ConfigMismatchError">>
         ELSE <<Loaded(file), file, "none">>
    ELSE <<FreshState(new_id, hash), Saved(FreshState(new_id, hash)), "none">>

\* variant: a cleanup that unlinks nothing
DoCleanup_Keeps(file) == file

\* cleanup(): unlink the file if it is there
DoCleanup(file) == NoFile

(***************************************************************************)
(* ScanConfig and its fingerprint.                                         *)
(***************************************************************************)
\* the names the model sorts, in Python's string order
Alphabetical ==
    << "app-1", "app-2", "app-3", "applications", "campaigns", "channels",
       "eu-west-1", "event_streams", "jobs", "journeys", "kpis",
       "recommenders", "segments", "settings", "sms_voice_v2", "templates",
       "us-east-1", "us-east-2" >>

Rank(x) == CHOOSE i \in 1..Len(Alphabetical) : Alphabetical[i] = x

\* sorted(list)
Sorted(s) == SortSeq(s, LAMBDA a, b : Rank(a) < Rank(b))

\* config_hash(): sha256 of the JSON blob of the key fields; the blob itself
\* stands for its digest
ConfigHash(c) ==
    << c.accounts, Sorted(c.regions), Sorted(c.app_ids), Sorted(c.scanners),
       c.no_sms_voice_v2 >>

ScanConfig(accounts, scanners, max_workers, resume) ==
    [ accounts |-> accounts, regions |-> <<>>, app_ids |-> <<>>,
      scanners |-> scanners, no_sms_voice_v2 |-> FALSE,
      max_workers |-> max_workers, resume |-> resume ]

\* the scanner selections (--scanner ...) the model runs with: one with
\* per-app and account-level scanners, one with account-level scanners only
MainSelection == <<"segments", "templates", "applications">>

AccountOnlySelection == <<"recommenders", "templates">>

Selections == {MainSelection, AccountOnlySelection}

(***************************************************************************)
(* SpecStore: the CheckpointManager driven as its tests drive it.          *)
(***************************************************************************)
StoreKeys ==
    { CkKey("segments", "us-east-1", "app-1"), AccountKey("templates", "us-east-1") }

StoreHashes ==
    { ConfigHash(ScanConfig(<<"default">>, s, 1, FALSE)) : s \in Selections }

StoreResults(key) ==
    {<<>>} \cup {<<ScanResult(key[1], key[2], key[3], p)>> : p \in Payloads}

StoreRegionMaps == { <<>>, << <<"us-east-1", <<"app-1">>>> >> }

Op(name, key) == [op |-> name, key |-> key]

NothingLoaded == [completed |-> {}, in_progress |-> {}, errors |-> 0]

\* the process variables do not move in SpecStore
IdleProcess ==
    /\ config = ScanConfig(<<"default">>, <<>>, 1, FALSE)
    /\ shutdown = FALSE
    /\ ctrl_c_count = 0
    /\ pc = "idle"
    /\ acct = 0
    /\ regionsTodo = <<>>
    /\ toSubmit = <<>>
    /\ queue = <<>>
    /\ running = EmptyMap
    /\ asIdx = 0
    /\ reports = 0
    /\ exitCode = -1
    /\ loaded = NothingLoaded
    /\ ulog = EmptyMap
    /\ sigPc = "none"
    /\ stopped = {}
    /\ found = <<>>

\* no thread is inside a store call, no temp file, no I/O failure so far
IdleSave ==
    /\ tmp = NoFile
    /\ lock = "none"
    /\ calls = EmptyMap
    /\ faults = 0

\* no map_parallel call is under way
IdleMap ==
    /\ call = [items |-> <<>>, raises |-> {}, workers |-> 1, pc |-> "idle"]
    /\ futures = <<>>
    /\ results = <<>>

\* no RateLimiter is in use
IdleLimiter ==
    /\ limiter = [tokens |-> 0, max_tokens |-> 0, refill_rate |-> 0, last_refill |-> 0,
                  total_calls |-> 0, total_retries |-> 0, lock |-> "none"]
    /\ clock = 0
    /\ acq = EmptyMap

\* CheckpointManager(output_dir, hash): nothing on disk yet
InitStore ==
    /\ state = EmptyDict
    /\ disk = NoFile
    /\ config_hash \in StoreHashes
    /\ uuids = 0
    /\ raised = "none"
    /\ lastOp = Op("new", <<>>)
    /\ lastSaved = EmptyDict
    /\ runs = 1
    /\ IdleProcess
    /\ IdleSave
    /\ IdleMap
    /\ IdleLimiter

\* the manager is usable: initialize() has returned normally
Usable == lastOp.op # "new" /\ raised = "none"

\* a new CheckpointManager on the same directory (the process restarted)
StoreNew(hash) ==
    /\ lastOp.op # "new"
    /\ runs < MaxRuns
    /\ runs' = runs + 1
    /\ state' = EmptyDict
    /\ config_hash' = hash
    /\ raised' = "none"
    /\ lastOp' = Op("new", <<>>)
    /\ UNCHANGED <<auxVars, disk, uuids, lastSaved, procVars, histVars>>

\* lastOp keeps, for a fresh initialization, the resume argument and the file
\* that was in the directory when it was called
StoreInitialize(resume) ==
    /\ lastOp.op = "new"
    /\ LET r == DoInitialize(state, disk, config_hash, resume, uuids + 1)
       IN /\ state' = r[1]
          /\ disk' = r[2]
          /\ raised' = r[3]
          /\ IF resume /\ disk.exists
             THEN /\ lastOp' = Op("resume", <<>>)
                  /\ UNCHANGED <<uuids, lastSaved>>
             ELSE /\ lastOp' = Op("initialize", <<resume, disk>>)
                  /\ uuids' = uuids + 1
                  /\ lastSaved' = r[1]
    /\ UNCHANGED <<auxVars, config_hash, runs, procVars, histVars>>

\* a method that changes _state under the lock and saves it before returning
StoreWrite(name, key, new) ==
    /\ Usable
    /\ state' = new
    /\ disk' = Saved(new)
    /\ lastSaved' = new
    /\ lastOp' = Op(name, key)
    /\ UNCHANGED <<auxVars, config_hash, uuids, raised, runs, procVars, histVars>>

StoreSetDiscoveredRegions(regions) ==
    StoreWrite("set_discovered_regions", <<>>, DoSetDiscoveredRegions(state, regions))

\* mark_in_progress saves only when it appended the key
StoreMarkInProgress(key) ==
    /\ Usable
    /\ state' = DoMarkInProgress(state, key)
    /\ IF state' # state
       THEN disk' = Saved(state') /\ lastSaved' = state'
       ELSE UNCHANGED <<disk, lastSaved>>
    /\ lastOp' = Op("mark_in_progress", key)
    /\ UNCHANGED <<auxVars, config_hash, uuids, raised, runs, procVars, histVars>>

StoreMarkCompleted(key, result) ==
    StoreWrite("mark_completed", key, DoMarkCompleted(state, key, 1, result))

StoreMarkError(key, error) ==
    /\ Len(state.errors) < MaxErrors
    /\ StoreWrite("mark_error", key, DoMarkError(state, key, error))

\* the file is damaged or made unreadable from outside while no store is
\* working on the directory
StoreCorrupt ==
    /\ lastOp.op = "new"
    /\ disk.exists
    /\ disk.complete
    /\ disk' = [disk EXCEPT !.complete = FALSE]
    /\ UNCHANGED <<auxVars, state, config_hash, uuids, raised, lastOp, lastSaved, runs,
                   procVars, histVars>>

StoreCleanup ==
    /\ Usable
    /\ disk.exists
    /\ disk' = DoCleanup(disk)
    /\ lastOp' = Op("cleanup", <<>>)
    /\ UNCHANGED <<auxVars, state, config_hash, uuids, raised, lastSaved, runs, procVars, histVars>>

NextStore ==
    \/ \E hash \in StoreHashes : StoreNew(hash)
    \/ \E resume \in BOOLEAN : StoreInitialize(resume)
    \/ \E regions \in StoreRegionMaps : StoreSetDiscoveredRegions(regions)
    \/ \E key \in StoreKeys : StoreMarkInProgress(key)
    \/ \E key \in StoreKeys : \E result \in StoreResults(key) : StoreMarkCompleted(key, result)
    \/ \E key \in StoreKeys : StoreMarkError(key, "boom")
    \/ StoreCleanup
    \/ StoreCorrupt

SpecStore == InitStore /\ [][NextStore]_vars

(***************************************************************************)
(* Spec: the orchestrator.                                                 *)
(***************************************************************************)
\* the configurations the model runs: one account with the main selection,
\* two accounts with the account-level one, each fresh or with --resume and
\* with --max-workers 2, and a fresh run of the first with --max-workers 1
Configs ==
    { ScanConfig(<<"default">>, MainSelection, 2, r) : r \in BOOLEAN }
    \cup { ScanConfig(<<"default">>, MainSelection, 1, FALSE) }
    \cup { ScanConfig(<<"acct-a", "acct-b">>, AccountOnlySelection, 2, r) :
              r \in BOOLEAN }

active_scanners == get_active_scanners(config.scanners, config.no_sms_voice_v2)

per_app_scanners == SelectSeq(active_scanners, PerApp)

account_scanners == SelectSeq(active_scanners, LAMBDA s : ~PerApp(s))

\* what the listing API can answer: region -> app ids, as the list of the
\* dict's items
AppIds == <<"app-1", "app-2", "app-3">>

DiscoveryOutcomes ==
    { <<>>,
      << <<"us-east-1", <<"app-1">>>> >>,
      << <<"us-east-1", <<"app-1", "app-2">>>> >>,
      << <<"us-east-1", <<"app-1">>>>, <<"us-east-2", <<"app-3">>>> >> }

\* what get_session / sts can answer for an account
SessionOutcomes == {"ok", "AWSSessionError"}

\* how a scanner's scan() ends; it raises only while the error list
\* stays within MaxErrors
ScanOutcomes ==
    IF Len(state.errors) < MaxErrors THEN {"ok", "err"} ELSE {"ok"}

ScanPayload(scanner_name) ==
    IF scanner_name = "sms_voice_v2" THEN "datetime" ELSE "plain"

Without(m, k) == [x \in (DOMAIN m) \ {k} |-> m[x]]

Unit(key) == <<acct, key>>

NewProcess(c) ==
    /\ config' = c
    /\ config_hash' = ConfigHash(c)
    /\ state' = EmptyDict
    /\ raised' = "none"
    /\ shutdown' = FALSE
    /\ ctrl_c_count' = 0
    /\ pc' = "start"
    /\ acct' = 1
    /\ regionsTodo' = <<>>
    /\ toSubmit' = <<>>
    /\ queue' = <<>>
    /\ running' = EmptyMap
    /\ asIdx' = 0
    /\ reports' = 0
    /\ exitCode' = -1
    /\ loaded' = NothingLoaded
    /\ ulog' = EmptyMap
    /\ sigPc' = "none"
    /\ stopped' = {}
    /\ found' = <<>>

Init ==
    /\ \E c \in Configs :
        /\ config = c
        /\ config_hash = ConfigHash(c)
    /\ state = EmptyDict
    /\ disk = NoFile
    /\ uuids = 0
    /\ raised = "none"
    /\ lastOp = Op("new", <<>>)
    /\ lastSaved = EmptyDict
    /\ runs = 1
    /\ shutdown = FALSE
    /\ ctrl_c_count = 0
    /\ pc = "start"
    /\ acct = 1
    /\ regionsTodo = <<>>
    /\ toSubmit = <<>>
    /\ queue = <<>>
    /\ running = EmptyMap
    /\ asIdx = 0
    /\ reports = 0
    /\ exitCode = -1
    /\ loaded = NothingLoaded
    /\ ulog = EmptyMap
    /\ sigPc = "none"
    /\ stopped = {}
    /\ found = <<>>
    /\ IdleSave
    /\ IdleMap
    /\ IdleLimiter

\* the next process on the same output directory
Restart ==
    /\ pc = "exited"
    /\ runs < MaxRuns
    /\ runs' = runs + 1
    /\ \E c \in Configs : NewProcess(c)
    /\ UNCHANGED <<auxVars, disk, uuids, lastOp, lastSaved>>

\* a checkpoint method called by a thread of the orchestrator
Checkpoint(new) ==
    /\ state' = new
    /\ disk' = IF new # state THEN Saved(new) ELSE disk

\* sys.exit(1), or run() returning
Exit(code) ==
    /\ pc' = "exited"
    /\ exitCode' = code

\* run(): self.checkpoint.initialize(resume=self.config.resume)
M_Initialize ==
    /\ pc = "start"
    /\ LET r == DoInitialize(state, disk, config_hash, config.resume, uuids + 1)
       IN /\ state' = r[1]
          /\ disk' = r[2]
          /\ uuids' = IF config.resume /\ disk.exists THEN uuids ELSE uuids + 1
          /\ IF r[3] = "none"
             THEN /\ pc' = "acct_head"
                  /\ loaded' = [ completed |-> DOMAIN r[1].completed,
                                 in_progress |-> SeqToSet(r[1].in_progress),
                                 errors |-> Len(r[1].errors) ]
                  /\ UNCHANGED <<raised, exitCode>>
             ELSE /\ raised' = r[3]
                  /\ Exit(1)
                  /\ UNCHANGED loaded
    /\ UNCHANGED <<auxVars, config_hash, lastOp, lastSaved, runs, config, shutdown,
                   ctrl_c_count, acct, regionsTodo, toSubmit, queue, running,
                   asIdx, reports, ulog, sigPc, stopped, found>>

\* variant: a should_stop that never sees the flag
should_stop_Never(flag) == FALSE

\* ScanExecutor.should_stop and request_shutdown, over the event's flag
should_stop(flag) == flag

request_shutdown(flag) == TRUE

\* run(): for account in self.config.accounts: if should_stop: break
M_AcctHead ==
    /\ pc = "acct_head"
    /\ pc' = IF acct > Len(config.accounts) \/ should_stop(shutdown)
             THEN "report" ELSE "resolve"
    /\ UNCHANGED <<auxVars, storeVars, config, shutdown, ctrl_c_count, acct, regionsTodo,
                   toSubmit, queue, running, asIdx, reports, exitCode, histVars>>

\* _scan_account: resolve_account_id (get_session raises AWSSessionError)
M_Resolve ==
    /\ pc = "resolve"
    /\ \E outcome \in SessionOutcomes :
        IF outcome = "ok"
        THEN /\ pc' = "discover"
             /\ UNCHANGED <<raised, exitCode>>
        ELSE /\ raised' = outcome
             /\ Exit(1)
    /\ UNCHANGED <<auxVars, state, disk, config_hash, uuids, lastOp, lastSaved, runs,
                   config, shutdown, ctrl_c_count, acct, regionsTodo, toSubmit,
                   queue, running, asIdx, reports, histVars>>

\* _scan_account: _discover_regions, then `if not regions_with_apps: return`
M_Discover ==
    /\ pc = "discover"
    /\ LET cached == get_discovered_regions(state)
           use_cache == config.resume /\ cached # <<>>
       IN \E regions \in (IF use_cache THEN {cached} ELSE DiscoveryOutcomes) :
            /\ IF use_cache
               THEN UNCHANGED <<state, disk>>
               ELSE /\ state' = DoSetDiscoveredRegions(state, regions)
                    /\ disk' = Saved(state')
            /\ IF regions = <<>>
               THEN /\ acct' = acct + 1
                    /\ pc' = "acct_head"
                    /\ UNCHANGED regionsTodo
               ELSE /\ regionsTodo' = regions
                    /\ pc' = "region_head"
                    /\ UNCHANGED acct
            /\ found' = Append(found, regions)
    /\ UNCHANGED <<auxVars, config_hash, uuids, raised, lastOp, lastSaved, runs, config,
                   shutdown, ctrl_c_count, toSubmit, queue, running, asIdx,
                   reports, exitCode, loaded, ulog, sigPc, stopped>>

\* _scan_account: for region, app_ids in ...: if should_stop: break;
\* then _scan_region up to the call of map_parallel
M_RegionHead ==
    /\ pc = "region_head"
    /\ IF regionsTodo = <<>> \/ should_stop(shutdown)
       THEN /\ acct' = acct + 1
            /\ pc' = "acct_head"
            /\ regionsTodo' = <<>>
            /\ UNCHANGED <<toSubmit, asIdx>>
       ELSE /\ IF per_app_scanners # <<>> /\ Head(regionsTodo)[2] # <<>>
               THEN /\ toSubmit' = Head(regionsTodo)[2]
                    /\ pc' = "submit"
                    /\ UNCHANGED asIdx
               ELSE /\ pc' = "as_head"
                    /\ asIdx' = 1
                    /\ UNCHANGED toSubmit
            /\ UNCHANGED <<acct, regionsTodo>>
    /\ UNCHANGED <<auxVars, storeVars, config, shutdown, ctrl_c_count, queue, running,
                   reports, exitCode, histVars>>

\* map_parallel: for item in items: if shutdown: break; executor.submit(...)
M_Submit ==
    /\ pc = "submit"
    /\ IF toSubmit = <<>> \/ shutdown
       THEN /\ pc' = "wait"
            /\ toSubmit' = <<>>
            /\ UNCHANGED queue
       ELSE /\ queue' = Append(queue, Head(toSubmit))
            /\ toSubmit' = Tail(toSubmit)
            /\ UNCHANGED pc
    /\ UNCHANGED <<auxVars, storeVars, config, shutdown, ctrl_c_count, acct, regionsTodo,
                   running, asIdx, reports, exitCode, histVars>>

M_Wait_Early ==
    /\ pc = "wait"
    /\ pc' = "as_head"
    /\ asIdx' = 1
    /\ UNCHANGED <<auxVars, storeVars, config, shutdown, ctrl_c_count, acct, regionsTodo,
                   toSubmit, queue, running, reports, exitCode, histVars>>

\* map_parallel: as_completed(...) has yielded every future
M_Wait ==
    /\ pc = "wait"
    /\ queue = <<>>
    /\ DOMAIN running = {}
    /\ pc' = "as_head"
    /\ asIdx' = 1
    /\ UNCHANGED <<auxVars, storeVars, config, shutdown, ctrl_c_count, acct, regionsTodo,
                   toSubmit, queue, running, reports, exitCode, histVars>>

(***************************************************************************)
(* One scanner unit, as both scanner loops run it:                         *)
(*     for scanner_name in ...:                                            *)
(*         if self.executor.should_stop: break                             *)
(*         if self.checkpoint.is_completed(ck_key): continue               *)
(*         try: mark_in_progress; scan(); mark_completed                   *)
(*         except Exception as e: mark_error                               *)
(* A unit takes three steps: the loop boundary, mark_in_progress (the scan *)
(* is then in flight), and the end of the scan together with the           *)
(* checkpoint call that closes the unit.                                   *)
(***************************************************************************)
\* variant: a loop boundary without the is_completed test
LoopHead_NoSkip(scanners, idx, stop, st, region, app_id) ==
    IF idx > Len(scanners) THEN "end"
    ELSE IF stop THEN "break"
    ELSE "admit"

\* the loop boundary: "end" of the list, "break", "skip" (continue), "admit"
LoopHead(scanners, idx, stop, st, region, app_id) ==
    IF idx > Len(scanners) THEN "end"
    ELSE IF stop THEN "break"
    ELSE IF is_completed(st, CkKey(scanners[idx], region, app_id)) THEN "skip"
    ELSE "admit"

\* variant: a unit whose scanner raised is closed without mark_error
UnitDone_DropsError(st, key, outcome) ==
    IF outcome = "ok"
    THEN DoMarkCompleted(st, key, 1, <<ScanResult(key[1], key[2], key[3], ScanPayload(key[1]))>>)
    ELSE st

\* the checkpoint call that ends a unit
UnitDone(st, key, outcome) ==
    IF outcome = "ok"
    THEN DoMarkCompleted(st, key, 1, <<ScanResult(key[1], key[2], key[3], ScanPayload(key[1]))>>)
    ELSE DoMarkError(st, key, "boom")

Log(key, what) == ulog' = Put(ulog, Unit(key), what)

curRegion == Head(regionsTodo)[1]

\* ---- the account-level scanners of _scan_region, on the main thread
AsKey == AccountKey(account_scanners[asIdx], curRegion)

M_AsHead ==
    /\ pc = "as_head"
    /\ LET d == LoopHead(account_scanners, asIdx, should_stop(shutdown), state,
                         curRegion, "account")
       IN /\ IF d \in {"end", "break"}
             THEN /\ regionsTodo' = Tail(regionsTodo)
                  /\ pc' = "region_head"
                  /\ asIdx' = 0
             ELSE /\ pc' = IF d = "skip" THEN "as_head" ELSE "as_mark"
                  /\ asIdx' = IF d = "skip" THEN asIdx + 1 ELSE asIdx
                  /\ UNCHANGED regionsTodo
          /\ IF d \in {"skip", "admit"}
             THEN Log(AsKey, IF d = "skip" THEN "skipped" ELSE "admitted")
             ELSE UNCHANGED ulog
          /\ stopped' = IF asIdx <= Len(account_scanners) /\ shutdown
                        THEN stopped \cup {Unit(AsKey)}
                        ELSE stopped
    /\ UNCHANGED <<auxVars, storeVars, config, shutdown, ctrl_c_count, acct, toSubmit,
                   queue, running, reports, exitCode, loaded, sigPc, found>>

M_AsMark ==
    /\ pc = "as_mark"
    /\ Checkpoint(DoMarkInProgress(state, AsKey))
    /\ pc' = "as_scan"
    /\ Log(AsKey, "marked")
    /\ UNCHANGED <<auxVars, config_hash, uuids, raised, lastOp, lastSaved, runs, config,
                   shutdown, ctrl_c_count, acct, regionsTodo, toSubmit, queue,
                   running, asIdx, reports, exitCode, loaded, sigPc, stopped, found>>

\* scanner.scan() returns or raises, and the unit is closed
M_AsDone ==
    /\ pc = "as_scan"
    /\ \E outcome \in ScanOutcomes :
        /\ Checkpoint(UnitDone(state, AsKey, outcome))
        /\ Log(AsKey, outcome)
    /\ pc' = "as_head"
    /\ asIdx' = asIdx + 1
    /\ UNCHANGED <<auxVars, config_hash, uuids, raised, lastOp, lastSaved, runs, config,
                   shutdown, ctrl_c_count, acct, regionsTodo, toSubmit, queue,
                   running, reports, exitCode, loaded, sigPc, stopped, found>>

\* ---- _scan_single_app, in a worker thread of map_parallel
WKey(app_id) == CkKey(per_app_scanners[running[app_id].idx], curRegion, app_id)

\* a worker takes the oldest queued future
W_Start ==
    /\ exitCode = -1
    /\ queue # <<>>
    /\ Cardinality(DOMAIN running) < config.max_workers
    /\ running' = Put(running, Head(queue), [idx |-> 1, pc |-> "head"])
    /\ queue' = Tail(queue)
    /\ UNCHANGED <<auxVars, storeVars, config, shutdown, ctrl_c_count, pc, acct, regionsTodo,
                   toSubmit, asIdx, reports, exitCode, histVars>>

W_Head(app_id) ==
    /\ exitCode = -1
    /\ app_id \in DOMAIN running
    /\ running[app_id].pc = "head"
    /\ LET d == LoopHead(per_app_scanners, running[app_id].idx,
                         should_stop(shutdown), state, curRegion, app_id)
       IN /\ running' =
                CASE d \in {"end", "break"} -> Without(running, app_id)
                  [] d = "skip" -> [running EXCEPT ![app_id].idx = @ + 1]
                  [] OTHER -> [running EXCEPT ![app_id].pc = "mark"]
          /\ IF d \in {"skip", "admit"}
             THEN Log(WKey(app_id), IF d = "skip" THEN "skipped" ELSE "admitted")
             ELSE UNCHANGED ulog
          /\ stopped' = IF running[app_id].idx <= Len(per_app_scanners) /\ shutdown
                        THEN stopped \cup {Unit(WKey(app_id))}
                        ELSE stopped
    /\ UNCHANGED <<auxVars, storeVars, procVarsButRunning, loaded, sigPc, found>>

W_Mark(app_id) ==
    /\ exitCode = -1
    /\ app_id \in DOMAIN running
    /\ running[app_id].pc = "mark"
    /\ Checkpoint(DoMarkInProgress(state, WKey(app_id)))
    /\ running' = [running EXCEPT ![app_id].pc = "scan"]
    /\ Log(WKey(app_id), "marked")
    /\ UNCHANGED <<auxVars, config_hash, uuids, raised, lastOp, lastSaved, runs,
                   procVarsButRunning, loaded, sigPc, stopped, found>>

\* scanner.scan() returns or raises, and the unit is closed
W_Done(app_id) ==
    /\ exitCode = -1
    /\ app_id \in DOMAIN running
    /\ running[app_id].pc = "scan"
    /\ \E outcome \in ScanOutcomes :
        /\ Checkpoint(UnitDone(state, WKey(app_id), outcome))
        /\ Log(WKey(app_id), outcome)
    /\ running' = [running EXCEPT ![app_id].pc = "head", ![app_id].idx = @ + 1]
    /\ UNCHANGED <<auxVars, config_hash, uuids, raised, lastOp, lastSaved, runs,
                   procVarsButRunning, loaded, sigPc, stopped, found>>

\* ---- the end of run()
\* _generate_report
M_Report ==
    /\ pc = "report"
    /\ reports' = reports + 1
    /\ pc' = "cleanup_check"
    /\ UNCHANGED <<auxVars, storeVars, config, shutdown, ctrl_c_count, acct, regionsTodo,
                   toSubmit, queue, running, asIdx, exitCode, histVars>>

\* variant: cleanup() whatever the flag
AfterReport_Always(stop) == "cleanup"

\* if not self.executor.should_stop:
AfterReport(stop) == IF stop THEN "finish" ELSE "cleanup"

M_CleanupCheck ==
    /\ pc = "cleanup_check"
    /\ pc' = AfterReport(should_stop(shutdown))
    /\ UNCHANGED <<auxVars, storeVars, config, shutdown, ctrl_c_count, acct, regionsTodo,
                   toSubmit, queue, running, asIdx, reports, exitCode, histVars>>

\* self.checkpoint.cleanup()
M_Cleanup ==
    /\ pc = "cleanup"
    /\ disk' = DoCleanup(disk)
    /\ pc' = "finish"
    /\ UNCHANGED <<auxVars, state, config_hash, uuids, raised, lastOp, lastSaved, runs,
                   config, shutdown, ctrl_c_count, acct, regionsTodo, toSubmit,
                   queue, running, asIdx, reports, exitCode, histVars>>

\* run() returns
M_Finish ==
    /\ pc = "finish"
    /\ Exit(0)
    /\ UNCHANGED <<auxVars, storeVars, config, shutdown, ctrl_c_count, acct, regionsTodo,
                   toSubmit, queue, running, asIdx, reports, histVars>>

\* variant: a handler that only ever requests the shutdown
Handler_AlwaysGraceful(count, at) == "request_shutdown"

\* ---- SIGINT: the handler of _install_signal_handler, on the main thread.
\* The first one requests the shutdown; a later one raises SystemExit there,
\* which leaves map_parallel's `with ThreadPoolExecutor` only once the
\* submitted futures are done.
Handler(count, at) ==
    IF count = 1 THEN "request_shutdown"
    ELSE IF at \in {"submit", "wait"} THEN "exit_after_pool"
    ELSE "exit"

Signal ==
    /\ pc \notin {"exited", "quitting"}
    /\ ctrl_c_count' = ctrl_c_count + 1
    /\ LET h == Handler(ctrl_c_count + 1, pc)
       IN CASE h = "request_shutdown" ->
                 /\ shutdown' = request_shutdown(shutdown)
                 /\ sigPc' = IF sigPc = "none" THEN pc ELSE sigPc
                 /\ UNCHANGED <<pc, exitCode, toSubmit>>
            [] h = "exit_after_pool" ->
                 /\ pc' = "quitting"
                 /\ toSubmit' = <<>>
                 /\ UNCHANGED <<shutdown, sigPc, exitCode>>
            [] OTHER ->
                 /\ Exit(1)
                 /\ UNCHANGED <<shutdown, sigPc, toSubmit>>
    /\ UNCHANGED <<auxVars, storeVars, config, acct, regionsTodo, queue, running, asIdx,
                   reports, loaded, ulog, stopped, found>>

\* the pool has drained after SystemExit: the process exits with status 1
M_Quit ==
    /\ pc = "quitting"
    /\ queue = <<>>
    /\ DOMAIN running = {}
    /\ Exit(1)
    /\ UNCHANGED <<auxVars, storeVars, config, shutdown, ctrl_c_count, acct, regionsTodo,
                   toSubmit, queue, running, asIdx, reports, histVars>>

Next ==
    \/ M_Initialize
    \/ M_AcctHead
    \/ M_Resolve
    \/ M_Discover
    \/ M_RegionHead
    \/ M_Submit
    \/ M_Wait
    \/ M_AsHead
    \/ M_AsMark
    \/ M_AsDone
    \/ W_Start
    \/ \E app_id \in SeqToSet(AppIds) : W_Head(app_id)
    \/ \E app_id \in SeqToSet(AppIds) : W_Mark(app_id)
    \/ \E app_id \in SeqToSet(AppIds) : W_Done(app_id)
    \/ M_Report
    \/ M_CleanupCheck
    \/ M_Cleanup
    \/ M_Finish
    \/ Signal
    \/ M_Quit
    \/ Restart

Spec == Init /\ [][Next]_vars

(***************************************************************************)
(* SpecSave: the mutating methods of CheckpointManager step by step, called *)
(* by two threads on different keys, with a file system that can fail and  *)
(* a process that can die at any step:                                     *)
(*     with self._lock:                                                    *)
(*         <change self._state>                                            *)
(*         with open(tmp_path, "w") as f: json.dump(self._state, f, ...)   *)
(*         os.replace(tmp_path, self._filepath)                            *)
(***************************************************************************)
SaveThreads == {"t1", "t2"}

\* the key each thread works on
ThreadKey(t) ==
    IF t = "t1" THEN CkKey("segments", "us-east-1", "app-1")
    ELSE CkKey("segments", "us-east-1", "app-2")

SaveOps == {"set_discovered_regions", "mark_in_progress", "mark_completed", "mark_error"}

NoCall == [op |-> "none", pc |-> "idle", last |-> "none"]

\* what open(), write() and os.replace() can answer
IoOutcomes == IF faults < MaxFaults THEN {"ok", "OSError"} ELSE {"ok"}

\* the change a method makes to self._state before it saves
Mutated(st, op, key) ==
    CASE op = "mark_in_progress" -> DoMarkInProgress(st, key)
      [] op = "mark_completed" ->
            DoMarkCompleted(st, key, 1, <<ScanResult(key[1], key[2], key[3], "plain")>>)
      [] op = "mark_error" -> DoMarkError(st, key, "boom")
      [] OTHER -> DoSetDiscoveredRegions(st, << <<"us-east-1", <<"app-1", "app-2">>>> >>)

\* variant: a lock that anyone can take at any time
LockFree_Always(l) == TRUE

\* with self._lock: the lock can be taken
LockFree(l) == l = "none"

\* an initialized store of a fresh run, its file saved
InitSave ==
    /\ config_hash = ConfigHash(ScanConfig(<<"default">>, MainSelection, 2, FALSE))
    /\ state = FreshState(1, config_hash)
    /\ disk = Saved(state)
    /\ uuids = 1
    /\ raised = "none"
    /\ lastOp = Op("initialize", <<>>)
    /\ lastSaved = state
    /\ runs = 1
    /\ IdleProcess
    /\ tmp = NoFile
    /\ lock = "none"
    /\ calls = [t \in SaveThreads |-> NoCall]
    /\ faults = 0
    /\ IdleMap
    /\ IdleLimiter

\* the call of thread t ends: the lock is released
SaveEnds(t, outcome) ==
    /\ calls' = [calls EXCEPT ![t] = [op |-> "none", pc |-> "idle",
                                      last |-> IF outcome = "none" THEN calls[t].op
                                               ELSE "raised"]]
    /\ lock' = "none"
    /\ raised' = outcome

\* except OSError as e: raise CheckpointError(...)
SaveFails(t) ==
    /\ faults' = faults + 1
    /\ SaveEnds(t, "CheckpointError")

\* thread t enters a method, takes the lock and changes self._state;
\* mark_in_progress returns at once when the key is already listed
SaveBegin(t, op) ==
    /\ pc = "idle"
    /\ calls[t].pc = "idle"
    /\ LockFree(lock)
    /\ op = "mark_error" => Len(state.errors) < MaxErrors
    /\ state' = Mutated(state, op, ThreadKey(t))
    /\ IF op = "mark_in_progress" /\ state' = state
       THEN /\ calls' = [calls EXCEPT ![t] = [op |-> "none", pc |-> "idle", last |-> op]]
            /\ lock' = "none"
            /\ raised' = "none"
       ELSE /\ calls' = [calls EXCEPT ![t] = [op |-> op, pc |-> "open", last |-> @.last]]
            /\ lock' = t
            /\ UNCHANGED raised
    /\ UNCHANGED <<disk, config_hash, uuids, lastOp, lastSaved, runs, procVars, histVars,
                   tmp, faults, mapVars, limVars>>

\* _save: open(tmp_path, "w") creates or truncates the temp file
SaveOpen(t) ==
    /\ pc = "idle"
    /\ calls[t].pc = "open"
    /\ \E io \in IoOutcomes :
          IF io = "ok"
          THEN /\ tmp' = [exists |-> TRUE, doc |-> EmptyDict, complete |-> FALSE]
               /\ calls' = [calls EXCEPT ![t].pc = "dump"]
               /\ UNCHANGED <<lock, raised, faults>>
          ELSE /\ SaveFails(t)
               /\ UNCHANGED tmp
    /\ UNCHANGED <<state, disk, config_hash, uuids, lastOp, lastSaved, runs, procVars,
                   histVars, mapVars, limVars>>

\* _save: json.dump writes self._state and the file is closed
SaveDump(t) ==
    /\ pc = "idle"
    /\ calls[t].pc = "dump"
    /\ \E io \in IoOutcomes :
          IF io = "ok"
          THEN /\ tmp' = Saved(state)
               /\ calls' = [calls EXCEPT ![t].pc = "replace"]
               /\ UNCHANGED <<lock, raised, faults>>
          ELSE /\ SaveFails(t)
               /\ UNCHANGED tmp
    /\ UNCHANGED <<state, disk, config_hash, uuids, lastOp, lastSaved, runs, procVars,
                   histVars, mapVars, limVars>>

\* _save: os.replace(tmp_path, self._filepath), and the method returns
SaveReplace(t) ==
    /\ pc = "idle"
    /\ calls[t].pc = "replace"
    /\ \E io \in IoOutcomes :
          IF io = "ok"
          THEN /\ disk' = tmp
               /\ tmp' = NoFile
               /\ SaveEnds(t, "none")
               /\ UNCHANGED faults
          ELSE /\ SaveFails(t)
               /\ UNCHANGED <<disk, tmp>>
    /\ UNCHANGED <<state, config_hash, uuids, lastOp, lastSaved, runs, procVars, histVars,
                   mapVars, limVars>>

\* the process dies inside a call (power loss, kill -9): the files stay as
\* they are
SaveCrash ==
    /\ pc = "idle"
    /\ lock # "none"
    /\ pc' = "crashed"
    /\ UNCHANGED <<storeVars, config, shutdown, ctrl_c_count, acct, regionsTodo,
                   toSubmit, queue, running, asIdx, reports, exitCode, histVars,
                   auxVars>>

\* the next process: a new store on the directory, initialize(resume=True)
SaveRecover ==
    /\ pc = "crashed"
    /\ pc' = "recovered"
    /\ LET r == DoInitialize(EmptyDict, disk, config_hash, TRUE, uuids + 1)
       IN /\ state' = r[1]
          /\ disk' = r[2]
          /\ raised' = r[3]
    /\ lock' = "none"
    /\ calls' = [t \in SaveThreads |-> NoCall]
    /\ UNCHANGED <<config_hash, uuids, lastOp, lastSaved, runs, config, shutdown, ctrl_c_count,
                   acct, regionsTodo, toSubmit, queue, running, asIdx, reports,
                   exitCode, histVars, tmp, faults, mapVars, limVars>>

NextSave ==
    \/ \E t \in SaveThreads : \E op \in SaveOps : SaveBegin(t, op)
    \/ \E t \in SaveThreads : SaveOpen(t)
    \/ \E t \in SaveThreads : SaveDump(t)
    \/ \E t \in SaveThreads : SaveReplace(t)
    \/ SaveCrash
    \/ SaveRecover

SpecSave == InitSave /\ [][NextSave]_vars

(***************************************************************************)
(* ScanExecutor.map_parallel (SpecMap): one call over a list of items,     *)
(* the pool's worker threads, and request_shutdown from another thread.    *)
(***************************************************************************)
MaxItems == 3       \* length of the list given to map_parallel

MapItems == {1, 2}

\* the lists of at most n items, duplicates included
ItemLists(n) == UNION {[1..k -> MapItems] : k \in 0..n}

\* func: some pure function of the item (test_executor.py: lambda x: x * 2)
func(item) == item * 2

\* Optional values: None and a present value
None == <<>>

Some(x) == <<x>>

\* the store variables do not move in SpecMap and SpecLimiter
IdleStore ==
    /\ state = EmptyDict
    /\ disk = NoFile
    /\ config_hash = ConfigHash(ScanConfig(<<"default">>, MainSelection, 1, FALSE))
    /\ uuids = 0
    /\ raised = "none"
    /\ lastOp = Op("new", <<>>)
    /\ lastSaved = EmptyDict
    /\ runs = 1

\* map_parallel(func, items) is entered: workers = max_workers or
\* self._max_workers, results = [], future_to_item = {}; func raises an
\* Exception for the items of `raises`
InitMap ==
    /\ IdleStore
    /\ IdleProcess
    /\ IdleSave
    /\ IdleLimiter
    /\ \E items \in ItemLists(MaxItems) : \E raises \in SUBSET MapItems :
       \E workers \in {1, 2} :
          call = [items |-> items, raises |-> raises, workers |-> workers,
                  pc |-> "check"]
    /\ futures = <<>>
    /\ results = <<>>

\* variant: the submit loop does not look at the shutdown event
is_set_Never(flag) == FALSE

\* self._shutdown_event.is_set()
is_set(flag) == flag

\* for item in items: if self._shutdown_event.is_set(): break
MapCheck ==
    /\ call.pc = "check"
    /\ call' = [call EXCEPT !.pc = IF Len(futures) = Len(call.items) \/ is_set(shutdown)
                                  THEN "collect"
                                  ELSE "submit"]
    /\ UNCHANGED <<storeVars, procVars, histVars, saveVars, futures, results, limVars>>

\* future = executor.submit(func, item); future_to_item[future] = item
MapSubmit ==
    /\ call.pc = "submit"
    /\ futures' = Append(futures, [item |-> call.items[Len(futures) + 1],
                                   status |-> "pending",
                                   collected |-> FALSE])
    /\ call' = [call EXCEPT !.pc = "check"]
    /\ UNCHANGED <<storeVars, procVars, histVars, saveVars, results, limVars>>

Busy == {i \in 1..Len(futures) : futures[i].status = "running"}

\* a free worker thread of the pool takes the oldest queued work item and
\* calls func(item)
WorkerStart(i) ==
    /\ i \in 1..Len(futures)
    /\ futures[i].status = "pending"
    /\ \A j \in 1..(i - 1) : futures[j].status # "pending"
    /\ Cardinality(Busy) < call.workers
    /\ futures' = [futures EXCEPT ![i].status = "running"]
    /\ UNCHANGED <<storeVars, procVars, histVars, saveVars, call, results, limVars>>

\* func(item) returns or raises: the future is finished with the result or
\* with the exception
WorkerFinish(i) ==
    /\ i \in 1..Len(futures)
    /\ futures[i].status = "running"
    /\ futures' = [futures EXCEPT ![i].status =
                      IF futures[i].item \in call.raises THEN "raised" ELSE "returned"]
    /\ UNCHANGED <<storeVars, procVars, histVars, saveVars, call, results, limVars>>

Finished(fut) == fut.status \in {"returned", "raised"}

\* try: result = future.result(); results.append((item, result, None))
\* except Exception as e: results.append((item, None, e))
ResultTuple(fut) ==
    IF fut.status = "returned"
    THEN <<fut.item, Some(func(fut.item)), None>>
    ELSE <<fut.item, None, Some("ValueError")>>

\* variant: an exception of one item empties the list built so far
Collected_RaiseAborts(res, fut) ==
    IF fut.status = "raised" THEN <<ResultTuple(fut)>> ELSE Append(res, ResultTuple(fut))

\* results.append(...)
Collected(res, fut) == Append(res, ResultTuple(fut))

\* for future in as_completed(future_to_item): the next finished future,
\* in the order the futures finish
MapCollect(i) ==
    /\ call.pc = "collect"
    /\ i \in 1..Len(futures)
    /\ Finished(futures[i])
    /\ ~futures[i].collected
    /\ results' = Collected(results, futures[i])
    /\ futures' = [futures EXCEPT ![i].collected = TRUE]
    /\ UNCHANGED <<storeVars, procVars, histVars, saveVars, call, limVars>>

\* variant: the call returns without waiting for the futures
Drained_NoWait(futs) == TRUE

\* as_completed has yielded every future
Drained(futs) == \A i \in 1..Len(futs) : futs[i].collected

\* self._executor = None; the `with` block ends; return results
MapReturn ==
    /\ call.pc = "collect"
    /\ Drained(futures)
    /\ call' = [call EXCEPT !.pc = "returned"]
    /\ UNCHANGED <<storeVars, procVars, histVars, saveVars, futures, results, limVars>>

\* request_shutdown(), from the signal handler or any thread, at any time
\* and any number of times
MapRequestShutdown ==
    /\ shutdown' = TRUE
    /\ UNCHANGED <<storeVars, config, ctrl_c_count, pc, acct, regionsTodo, toSubmit,
                   queue, running, asIdx, reports, exitCode, histVars, auxVars>>

NextMap ==
    \/ MapCheck
    \/ MapSubmit
    \/ \E i \in 1..Len(futures) : WorkerStart(i)
    \/ \E i \in 1..Len(futures) : WorkerFinish(i)
    \/ \E i \in 1..Len(futures) : MapCollect(i)
    \/ MapReturn
    \/ MapRequestShutdown

SpecMap == InitMap /\ [][NextMap]_vars

(***************************************************************************)
(* RateLimiter (SpecLimiter): threads calling acquire() while the          *)
(* monotonic clock advances.  Token amounts are counted in 1/Whole of a    *)
(* token and the clock in ticks of 1/Whole of a second, so that            *)
(* elapsed * refill_rate is a whole number of these parts.                 *)
(***************************************************************************)
Whole == 2          \* parts of one token, and clock ticks in one second
MaxClock == 3       \* ticks the clock advances
MaxCalls == 4       \* calls of acquire()

\* requests_per_second
Rates == {1, 2}

LimThreads == {"r1", "r2"}

Min(a, b) == IF a <= b THEN a ELSE b

\* a thread that is in neither acquire() nor call_with_retry()
IdleThread ==
    [pc |-> "idle", ret |-> "idle", calls |-> 0, returned |-> 0, seen |-> 0,
     attempt |-> 0, invoked |-> 0, slept |-> 0, last |-> None, outcome |-> "none"]

\* RateLimiter(requests_per_second) at time 0
NewLimiter(r) ==
    [tokens |-> r * Whole, max_tokens |-> r * Whole, refill_rate |-> r,
     last_refill |-> 0, total_calls |-> 0, total_retries |-> 0, lock |-> "none"]

InitLimiter ==
    /\ IdleStore
    /\ IdleProcess
    /\ IdleSave
    /\ IdleMap
    /\ \E r \in Rates : limiter = NewLimiter(r)
    /\ clock = 0
    /\ acq = [t \in LimThreads |-> IdleThread]

\* _refill at time now
Refilled(lim, now) ==
    [lim EXCEPT !.tokens = Min(lim.max_tokens,
                               lim.tokens + (now - lim.last_refill) * lim.refill_rate),
                !.last_refill = now]

\* variant: a token is handed out whenever the bucket is not empty
HasToken_Part(lim) == lim.tokens > 0

\* if self._tokens >= 1.0
HasToken(lim) == lim.tokens >= Whole

Calls == acq["r1"].calls + acq["r2"].calls

\* a thread calls acquire()
AcquireCall(t) ==
    /\ acq[t].pc = "idle"
    /\ Calls < MaxCalls
    /\ acq' = [acq EXCEPT ![t].pc = "lock", ![t].ret = "idle", ![t].calls = @ + 1]
    /\ UNCHANGED <<storeVars, procVars, histVars, saveVars, mapVars, limiter, clock>>

\* variant: `with self._lock` that never waits
Unlocked_Always(lim) == TRUE

\* with self._lock: the lock can be taken
Unlocked(lim) == lim.lock = "none"

\* one turn of the loop: the lock is taken; refill; then either a token is
\* taken and _total_calls is read for the `+= 1` (the lock stays held), or
\* the lock is left to sleep
AcquireTry(t) ==
    /\ acq[t].pc = "lock"
    /\ Unlocked(limiter)
    /\ LET lim == Refilled(limiter, clock)
       IN IF HasToken(lim)
          THEN /\ limiter' = [lim EXCEPT !.tokens = @ - Whole, !.lock = t]
               /\ acq' = [acq EXCEPT ![t].pc = "count", ![t].seen = lim.total_calls]
          ELSE /\ limiter' = lim
               /\ acq' = [acq EXCEPT ![t].pc = "sleep"]
    /\ UNCHANGED <<storeVars, procVars, histVars, saveVars, mapVars, clock>>

\* self._total_calls += 1 is stored; return leaves the lock
AcquireCount(t) ==
    /\ acq[t].pc = "count"
    /\ limiter' = [limiter EXCEPT !.total_calls = acq[t].seen + 1, !.lock = "none"]
    /\ acq' = [acq EXCEPT ![t].pc = acq[t].ret, ![t].returned = @ + 1]
    /\ UNCHANGED <<storeVars, procVars, histVars, saveVars, mapVars, clock>>

\* time.sleep(0.01) is over: the loop turns again
AcquireWake(t) ==
    /\ acq[t].pc = "sleep"
    /\ acq' = [acq EXCEPT ![t].pc = "lock"]
    /\ UNCHANGED <<storeVars, procVars, histVars, saveVars, mapVars, limiter, clock>>

\* time.monotonic() advances
Tick ==
    /\ clock < MaxClock
    /\ clock' = clock + 1
    /\ UNCHANGED <<storeVars, procVars, histVars, saveVars, mapVars, limiter, acq>>

NextLimiter ==
    \/ \E t \in LimThreads : AcquireCall(t)
    \/ \E t \in LimThreads : AcquireTry(t)
    \/ \E t \in LimThreads : AcquireCount(t)
    \/ \E t \in LimThreads : AcquireWake(t)
    \/ Tick

SpecLimiter == InitLimiter /\ [][NextLimiter]_vars

(***************************************************************************)
(* RateLimiter.call_with_retry (SpecRetry): one call by one thread on a    *)
(* function whose every invocation returns or raises as the service        *)
(* decides, while the clock advances.                                      *)
(***************************************************************************)
MAX_RETRIES == 5

THROTTLE_ERROR_CODES ==
    { "ThrottlingException", "TooManyRequestsException", "Throttling",
      "RequestLimitExceeded", "ProvisionedThroughputExceededException" }

\* how one invocation of func ends: it returns, raises a ClientError with an
\* error code and an HTTP status (0 where the response has none), or raises
\* something that is no ClientError
FuncOutcomes ==
    { [kind |-> "ok", code |-> "", status |-> 200],
      [kind |-> "ValueError", code |-> "", status |-> 0] }
    \cup { [kind |-> "ClientError", code |-> c, status |-> h] :
              c \in {"ThrottlingException", "NotFoundException"},
              h \in {0, 404, 429, 500} }

\* variant: every ClientError is retried
Retryable_AnyClientError(o) == o.kind = "ClientError"

\* is_throttle or is_server_error, for the errors `except ClientError` catches
Retryable(o) ==
    /\ o.kind = "ClientError"
    /\ (o.code \in THROTTLE_ERROR_CODES \/ o.status = 429 \/ o.status >= 500)

\* variant: a failure counted twice
Retried_Twice(n) == n + 2

\* self._total_retries += 1
Retried(n) == n + 1

\* variant: the loop gives up one attempt earlier
LastAttempt_Early(attempt) == attempt >= MAX_RETRIES - 1

\* the attempt after which `for attempt in range(MAX_RETRIES + 1)` ends
LastAttempt(attempt) == attempt >= MAX_RETRIES

\* the buckets of the calls: one that has to wait for refills and one that
\* never does (as in the tests)
InitRetry ==
    /\ IdleStore
    /\ IdleProcess
    /\ IdleSave
    /\ IdleMap
    /\ \E r \in {2, 8} : limiter = NewLimiter(r)
    /\ clock = 0
    /\ acq = [t \in {"r1"} |-> IdleThread]

\* call_with_retry(func) is entered: attempt 0 begins with self.acquire()
RetryCall(t) ==
    /\ acq[t].pc = "idle"
    /\ acq[t].outcome = "none"
    /\ acq' = [acq EXCEPT ![t].pc = "lock", ![t].ret = "invoke", ![t].calls = @ + 1]
    /\ UNCHANGED <<storeVars, procVars, histVars, saveVars, mapVars, limiter, clock>>

\* return func(*args, **kwargs), and the except clause when it raises
RetryInvoke(t) ==
    /\ acq[t].pc = "invoke"
    /\ \E o \in FuncOutcomes :
        IF o.kind = "ok"
        THEN /\ acq' = [acq EXCEPT ![t].pc = "done", ![t].invoked = @ + 1,
                                   ![t].outcome = "returned"]
             /\ UNCHANGED limiter
        ELSE IF ~Retryable(o)
        THEN /\ acq' = [acq EXCEPT ![t].pc = "done", ![t].invoked = @ + 1,
                                   ![t].outcome = "raised", ![t].last = Some(o)]
             /\ UNCHANGED limiter
        ELSE /\ limiter' = [limiter EXCEPT !.total_retries = Retried(@)]
             /\ acq' = IF LastAttempt(acq[t].attempt)
                       THEN [acq EXCEPT ![t].pc = "done", ![t].invoked = @ + 1,
                                        ![t].outcome = "RateLimitExceededError",
                                        ![t].last = Some(o)]
                       ELSE [acq EXCEPT ![t].pc = "backoff", ![t].invoked = @ + 1,
                                        ![t].slept = @ + 1, ![t].last = Some(o)]
    /\ UNCHANGED <<storeVars, procVars, histVars, saveVars, mapVars, clock>>

\* time.sleep(jitter) is over: the next attempt begins with self.acquire()
RetryBackoff(t) ==
    /\ acq[t].pc = "backoff"
    /\ acq' = [acq EXCEPT ![t].pc = "lock", ![t].attempt = @ + 1, ![t].calls = @ + 1]
    /\ UNCHANGED <<storeVars, procVars, histVars, saveVars, mapVars, limiter, clock>>

NextRetry ==
    \/ RetryCall("r1")
    \/ AcquireTry("r1")
    \/ AcquireCount("r1")
    \/ AcquireWake("r1")
    \/ RetryInvoke("r1")
    \/ RetryBackoff("r1")
    \/ Tick

SpecRetry == InitRetry /\ [][NextRetry]_vars

(***************************************************************************)
(* ScanConfig.config_hash (SpecHash): the fingerprints of two              *)
(* configurations, each computed once.  `call` holds the pair, `results`   *)
(* the two fingerprints.                                                   *)
(***************************************************************************)
\* the lists a configuration of the pair is built from: accounts (by label),
\* regions and scanners in both orders, and two worker counts
HashAccounts == { <<"acct-a">>, <<"acct-b">>, <<"acct-a", "acct-b">>, <<"acct-b", "acct-a">> }

HashRegions == { <<>>, <<"us-east-1", "eu-west-1">>, <<"eu-west-1", "us-east-1">> }

HashScanners == { <<>>, <<"segments">>, <<"campaigns">>, <<"segments", "campaigns">>,
                  <<"campaigns", "segments">> }

HashConfigs ==
    { [ScanConfig(a, s, w, FALSE) EXCEPT !.regions = r] :
        a \in HashAccounts, r \in HashRegions, s \in HashScanners, w \in {1, 5} }

InitHash ==
    /\ IdleStore
    /\ IdleProcess
    /\ IdleSave
    /\ IdleLimiter
    /\ \E a \in HashConfigs : \E b \in HashConfigs : call = [pc |-> "hash", cfg |-> <<a, b>>]
    /\ futures = <<>>
    /\ results = <<None, None>>

\* configN.config_hash()
Fingerprint(i) ==
    /\ call.pc = "hash"
    /\ results[i] = None
    /\ results' = [results EXCEPT ![i] = Some(ConfigHash(call.cfg[i]))]
    /\ UNCHANGED <<storeVars, procVars, histVars, saveVars, limVars, call, futures>>

NextHash == \E i \in {1, 2} : Fingerprint(i)

SpecHash == InitHash /\ [][NextHash]_vars

(***************************************************************************)
(* Orchestrator._generate_report (SpecReport): processes that scan units   *)
(* of the configured accounts, one account after the other, and then merge *)
(* the checkpoint's results into the in-memory ones.  `results` holds      *)
(* self._results and `call` the process: its configuration, the account it *)
(* is at and the merge under way.  A dict is a sequence of its items       *)
(* [key, list] in insertion order; a key f"{account_id}:{region}" is kept  *)
(* as the pair of its parts.                                               *)
(***************************************************************************)
\* what the accounts hold: label -> <<region, application ids>> ...
RegionsWithApps(label) ==
    IF label = "acct-a" THEN << <<"us-east-1", {"app-1"}>> >>
    ELSE << <<"us-east-1", {"app-2"}>>, <<"eu-west-1", {"app-3"}>> >>

\* identity["Account"] of sts.get_caller_identity() for a label's session
AccountIdOf(label) == IF label = "acct-a" THEN "111111111111" ELSE "222222222222"

\* how resolve_account_id ends: with the identity, with sts failing, or with
\* get_session raising
ResolveOutcomes == {"ok", "sts_error", "AWSSessionError"}

\* resolve_account_id's return value: get_caller_identity is inside its try
ResolvedId(label, outcome) == IF outcome = "ok" THEN AccountIdOf(label) ELSE "unknown"

\* variant: a failure of sts leaves run() like a failure of get_session
AfterResolve_StsFatal(outcome) == IF outcome = "ok" THEN "scan" ELSE "exited"

\* where _scan_account goes on: get_session is outside the try, so its
\* AWSSessionError leaves run() through `except PinpointEDAError`
AfterResolve(outcome) == IF outcome = "AWSSessionError" THEN "exited" ELSE "scan"

ReportAccounts == { <<"acct-a">>, <<"acct-b">>, <<"acct-a", "acct-b">> }

ReportSelections == { <<"segments">>, <<"templates">>, <<"segments", "templates">> }

\* the ck_keys _scan_region and _scan_app build for a region of an account
RegionKeys(scanners, region, app_ids) ==
    { CkKey(s, region, a) : s \in {x \in SeqToSet(scanners) : PerApp(x)}, a \in app_ids }
    \cup { AccountKey(s, region) : s \in {x \in SeqToSet(scanners) : ~PerApp(x)} }

\* the ck_keys of all units of an account
UnitsOf(label, scanners) ==
    UNION { RegionKeys(scanners, RegionsWithApps(label)[i][1], RegionsWithApps(label)[i][2]) :
              i \in 1..Len(RegionsWithApps(label)) }

\* d.get(key, []) and d.setdefault(key, []).append(x) on a dict of lists
ListAt(d, key) ==
    IF \E i \in 1..Len(d) : d[i].key = key
    THEN d[CHOOSE i \in 1..Len(d) : d[i].key = key].list
    ELSE <<>>

Appended(d, key, x) ==
    IF \E i \in 1..Len(d) : d[i].key = key
    THEN [i \in 1..Len(d) |-> IF d[i].key = key
                              THEN [d[i] EXCEPT !.list = Append(@, x)] ELSE d[i]]
    ELSE Append(d, [key |-> key, list |-> <<x>>])

InitReport ==
    /\ config_hash = ConfigHash(ScanConfig(<<"default">>, MainSelection, 1, FALSE))
    /\ state = FreshState(1, config_hash)
    /\ disk = Saved(state)
    /\ uuids = 1
    /\ raised = "none"
    /\ lastOp = Op("new", <<>>)
    /\ lastSaved = EmptyDict
    /\ runs = 1
    /\ IdleProcess
    /\ IdleSave
    /\ IdleLimiter
    /\ \E accounts \in ReportAccounts : \E scanners \in ReportSelections :
          call = [pc |-> "resolve", accounts |-> accounts, scanners |-> scanners, acct |-> 1,
                  ids |-> [i \in 1..Len(accounts) |-> "none"],
                  all_results |-> <<>>, todo |-> {}]
    /\ futures = <<>>
    /\ results = <<>>

\* _scan_account: account_id = resolve_account_id(account);
\* self._account_ids[account.label] = account_id
R_Resolve ==
    /\ call.pc = "resolve"
    /\ \E outcome \in ResolveOutcomes :
         call' = [call EXCEPT
                    !.pc = AfterResolve(outcome),
                    !.ids[call.acct] = IF outcome = "AWSSessionError" THEN @
                                       ELSE ResolvedId(call.accounts[call.acct], outcome)]
    /\ UNCHANGED <<storeVars, procVars, histVars, saveVars, limVars, futures, results>>

\* a unit of the account the process is at is scanned: mark_completed with
\* the result, then the result joins self._results[f"{account_id}:{region}"];
\* a unit the checkpoint has as completed is skipped
R_ScanUnit(key) ==
    LET result == ScanResult(key[1], key[2], key[3], ScanPayload(key[1])) IN
    /\ call.pc = "scan"
    /\ key \in UnitsOf(call.accounts[call.acct], call.scanners)
    /\ ~is_completed(state, key)
    /\ Checkpoint(DoMarkCompleted(state, key, result.resource_count, <<result>>))
    /\ results' = Appended(results, <<call.ids[call.acct], key[2]>>, result)
    /\ UNCHANGED <<config_hash, uuids, raised, lastOp, lastSaved, runs, procVars,
                   histVars, saveVars, limVars, call, futures>>

\* run(): the loop over self.config.accounts moves on
R_NextAccount ==
    /\ call.pc = "scan"
    /\ call.acct < Len(call.accounts)
    /\ call' = [call EXCEPT !.acct = @ + 1, !.pc = "resolve"]
    /\ UNCHANGED <<storeVars, procVars, histVars, saveVars, limVars, futures, results>>

\* all_results = dict(self._results); checkpoint_results = get_scan_results()
R_ReportBegin ==
    /\ call.pc = "scan"
    /\ call' = [call EXCEPT !.pc = "report", !.all_results = results,
                            !.todo = DOMAIN get_scan_results(state)]
    /\ UNCHANGED <<storeVars, procVars, histVars, saveVars, limVars, futures, results>>

\* one turn of `for ck_key, result_data in checkpoint_results.items()`
Merged(all, ck_key, result_data) ==
    LET region_key == ck_key[2]
        ends == { i \in 1..Len(all) : all[i].key[2] = region_key }
        acct_region_key ==
            IF ends # {} THEN all[CHOOSE i \in ends : \A j \in ends : i <= j].key
            ELSE <<"default", region_key>>
        list == ListAt(all, acct_region_key)
        existing_scanners ==
            { list[i].scanner_name : i \in { j \in 1..Len(list) : list[j].app_id = ck_key[3] } }
    IN  IF ck_key[1] \notin existing_scanners
        THEN Appended(all, acct_region_key,
                      [ scanner_name |-> result_data.scanner_name,
                        region |-> result_data.region, app_id |-> result_data.app_id,
                        resource_count |-> result_data.resource_count,
                        resources |-> result_data.resources ])
        ELSE all

\* the lists of all_results are those of self._results (dict() copies the
\* dict, not its values), so an append shows in both
R_Merge(ck_key) ==
    /\ call.pc = "report"
    /\ ck_key \in call.todo
    /\ LET all == Merged(call.all_results, ck_key, get_scan_results(state)[ck_key]) IN
        /\ call' = [call EXCEPT !.all_results = all, !.todo = @ \ {ck_key}]
        /\ results' = SubSeq(all, 1, Len(results))
    /\ UNCHANGED <<storeVars, procVars, histVars, saveVars, limVars, futures>>

\* assess_complexity(all_results); generate_report(results=all_results, ...)
R_ReportEnd ==
    /\ call.pc = "report"
    /\ call.todo = {}
    /\ call' = [call EXCEPT !.pc = "done"]
    /\ UNCHANGED <<storeVars, procVars, histVars, saveVars, limVars, futures, results>>

\* a later process resumes from the checkpoint file with the same
\* configuration: nothing in memory, the state as loaded
R_Resume ==
    /\ call.pc \in {"resolve", "scan", "done", "exited"}
    /\ runs < MaxRuns
    /\ runs' = runs + 1
    /\ state' = Loaded(disk)
    /\ results' = <<>>
    /\ call' = [call EXCEPT !.pc = "resolve", !.acct = 1,
                            !.ids = [i \in DOMAIN @ |-> "none"],
                            !.all_results = <<>>, !.todo = {}]
    /\ UNCHANGED <<disk, config_hash, uuids, raised, lastOp, lastSaved, procVars, histVars,
                   saveVars, limVars, futures>>

ReportKeys ==
    UNION { RegionKeys(<<"segments", "templates">>, r, {"app-1", "app-2", "app-3"}) :
              r \in {"us-east-1", "eu-west-1"} }

NextReport ==
    \/ R_Resolve
    \/ \E key \in ReportKeys : R_ScanUnit(key)
    \/ R_NextAccount
    \/ R_ReportBegin
    \/ \E key \in ReportKeys : R_Merge(key)
    \/ R_ReportEnd
    \/ R_Resume

SpecReport == InitReport /\ [][NextReport]_vars

(***************************************************************************)
(* discover_regions (SpecDiscover): one call.  `call` holds what the       *)
(* service answers to the probe of each region, `futures` the probes       *)
(* submitted to the pool and `results` the dict regions_with_apps.         *)
(***************************************************************************)
\* the candidate regions the model probes (three of PINPOINT_REGIONS)
PINPOINT_REGIONS == <<"us-east-1", "us-east-2", "eu-west-1">>

\* what get_pinpoint_client / get_apps do for a region: the Item list of
\* the response, or an exception of botocore
ProbeAnswers ==
    { [kind |-> "ok", app_ids |-> a] : a \in {<<>>, <<"app-1">>, <<"app-1", "app-2">>} }
    \cup { [kind |-> e, app_ids |-> <<>>] :
             e \in {"ClientError", "EndpointConnectionError", "ReadTimeoutError"} }

\* except (ClientError, EndpointConnectionError)
ProbeCaught(kind) == kind \in {"ClientError", "EndpointConnectionError"}

\* probe_region(region): the future's result or exception
Probed(region, answer) ==
    IF answer.kind = "ok" THEN [exc |-> None, value |-> <<region, answer.app_ids>>]
    ELSE IF ProbeCaught(answer.kind) THEN [exc |-> None, value |-> <<region, <<>>>>]
    ELSE [exc |-> Some(answer.kind), value |-> <<>>]

InitDiscover ==
    /\ IdleStore
    /\ IdleProcess
    /\ IdleSave
    /\ IdleLimiter
    /\ \E answers \in [SeqToSet(PINPOINT_REGIONS) -> ProbeAnswers] :
          call = [pc |-> "probing", answers |-> answers, error |-> None]
    /\ futures = [i \in 1..Len(PINPOINT_REGIONS) |-> [state |-> "running", exc |-> None,
                                                     value |-> <<>>, seen |-> FALSE]]
    /\ results = EmptyMap

\* a worker of the pool finishes probe_region for the i-th region
ProbeRun(i) ==
    /\ call.pc \in {"probing", "unwinding"}
    /\ futures[i].state = "running"
    /\ LET p == Probed(PINPOINT_REGIONS[i], call.answers[PINPOINT_REGIONS[i]]) IN
         futures' = [futures EXCEPT ![i] = [state |-> "done", exc |-> p.exc,
                                             value |-> p.value, seen |-> FALSE]]
    /\ UNCHANGED <<storeVars, procVars, histVars, saveVars, limVars, call, results>>

\* one turn of `for future in as_completed(futures)`: future.result()
\* re-raises the probe's exception, which leaves the loop
ProbeCollect(i) ==
    /\ call.pc = "probing"
    /\ futures[i].state = "done"
    /\ ~futures[i].seen
    /\ futures' = [futures EXCEPT ![i].seen = TRUE]
    /\ IF futures[i].exc # None
       THEN /\ call' = [call EXCEPT !.pc = "unwinding", !.error = futures[i].exc]
            /\ UNCHANGED results
       ELSE /\ results' = IF futures[i].value[2] # <<>>
                          THEN Put(results, futures[i].value[1], futures[i].value[2])
                          ELSE results
            /\ UNCHANGED call
    /\ UNCHANGED <<storeVars, procVars, histVars, saveVars, limVars>>

\* the with block ends (the pool waits for its workers) and the exception
\* leaves discover_regions
ProbeRaise ==
    /\ call.pc = "unwinding"
    /\ \A i \in 1..Len(futures) : futures[i].state = "done"
    /\ call' = [call EXCEPT !.pc = "raised"]
    /\ UNCHANGED <<storeVars, procVars, histVars, saveVars, limVars, futures, results>>

\* return regions_with_apps
ProbeReturn ==
    /\ call.pc = "probing"
    /\ \A i \in 1..Len(futures) : futures[i].seen
    /\ call' = [call EXCEPT !.pc = "returned"]
    /\ UNCHANGED <<storeVars, procVars, histVars, saveVars, limVars, futures, results>>

NextDiscover ==
    \/ \E i \in 1..Len(PINPOINT_REGIONS) : ProbeRun(i)
    \/ \E i \in 1..Len(PINPOINT_REGIONS) : ProbeCollect(i)
    \/ ProbeRaise
    \/ ProbeReturn

SpecDiscover == InitDiscover /\ [][NextDiscover]_vars

(***************************************************************************)
(* Orchestrator._scan_single_app with the scanners' own scan() (SpecUnit): *)
(* the per-app scanners of one application, run by one process and then by *)
(* a resumed one.  `call` holds the loop (scanner_names, idx, pc), the     *)
(* ScanResult being returned, per key what the remote call of its          *)
(* execution by this process did, and the in_progress list the process     *)
(* loaded; `results` is the list _scan_single_app returns.                 *)
(***************************************************************************)
\* how the remote call of a scanner ends, as call_with_retry hands it on
RemoteOutcomes == {"ok", "RateLimitExceededError", "ClientError"}

\* how scanner.scan() can end: it returns its ScanResult whatever the remote
\* call did; "raises" is an exception from outside its try block
ScanEnds == {"returns", "raises"}

\* XScanner.scan(): `except Exception as e: result.errors.append(str(e))`
ScannerScan(scanner_name, region, app_id, remote) ==
    IF remote = "ok"
    THEN [ scanner_name |-> scanner_name, region |-> region, app_id |-> app_id,
           resource_count |-> 1, resources |-> ScanPayload(scanner_name), errors |-> <<>> ]
    ELSE [ scanner_name |-> scanner_name, region |-> region, app_id |-> app_id,
           resource_count |-> 0, resources |-> "plain", errors |-> <<remote>> ]

\* the --scanner lists the model runs with, in the user's order
UnitSelections ==
    { <<"applications">>, <<"segments", "applications">>,
      <<"templates", "campaigns", "segments">> }

UnitKey == CkKey(call.scanner_names[call.idx], "us-east-1", "app-1")

InitUnit ==
    /\ config_hash = ConfigHash(ScanConfig(<<"default">>, MainSelection, 1, FALSE))
    /\ state = FreshState(1, config_hash)
    /\ disk = Saved(state)
    /\ uuids = 1
    /\ raised = "none"
    /\ lastOp = Op("new", <<>>)
    /\ lastSaved = EmptyDict
    /\ runs = 1
    /\ IdleProcess
    /\ IdleSave
    /\ IdleLimiter
    /\ \E selected \in UnitSelections :
          call = [pc |-> "head", idx |-> 1,
                  scanner_names |-> SelectSeq(get_active_scanners(selected, FALSE), PerApp),
                  result |-> None, remote |-> EmptyMap, loaded |-> <<>>]
    /\ futures = <<>>
    /\ results = <<>>

\* the head of `for scanner_name in scanner_names` up to mark_in_progress
U_Head ==
    /\ call.pc = "head"
    /\ LET d == LoopHead(call.scanner_names, call.idx, should_stop(FALSE), state,
                         "us-east-1", "app-1")
       IN  /\ call' = CASE d \in {"end", "break"} -> [call EXCEPT !.pc = "returned"]
                        [] d = "skip" -> [call EXCEPT !.idx = @ + 1]
                        [] OTHER -> [call EXCEPT !.pc = "scan"]
           /\ IF d = "admit"
              THEN Checkpoint(DoMarkInProgress(state, UnitKey))
              ELSE UNCHANGED <<state, disk>>
    /\ UNCHANGED <<config_hash, uuids, raised, lastOp, lastSaved, runs, procVars, histVars,
                   saveVars, limVars, futures, results>>

\* scan_result = scanner.scan()
U_Scan ==
    /\ call.pc = "scan"
    /\ \E remote \in RemoteOutcomes :
       \E ends \in (IF Len(state.errors) < MaxErrors THEN ScanEnds ELSE {"returns"}) :
         call' = [call EXCEPT
                    !.pc = IF ends = "returns" THEN "close" ELSE "except",
                    !.result = IF ends = "returns"
                               THEN Some(ScannerScan(UnitKey[1], UnitKey[2], UnitKey[3], remote))
                               ELSE None,
                    !.remote = Put(@, UnitKey, IF ends = "returns" THEN remote ELSE "raises")]
    /\ UNCHANGED <<storeVars, procVars, histVars, saveVars, limVars, futures, results>>

\* mark_completed(ck_key, scan_result.resource_count, scan_result.to_dict());
\* results.append(scan_result)
U_Close ==
    /\ call.pc = "close"
    /\ Checkpoint(DoMarkCompleted(state, UnitKey, call.result[1].resource_count, call.result))
    /\ results' = Append(results, call.result[1])
    /\ call' = [call EXCEPT !.pc = "head", !.idx = @ + 1, !.result = None]
    /\ UNCHANGED <<config_hash, uuids, raised, lastOp, lastSaved, runs, procVars, histVars,
                   saveVars, limVars, futures>>

\* except Exception as e: self.checkpoint.mark_error(ck_key, str(e))
U_Except ==
    /\ call.pc = "except"
    /\ Checkpoint(DoMarkError(state, UnitKey, "boom"))
    /\ call' = [call EXCEPT !.pc = "head", !.idx = @ + 1]
    /\ UNCHANGED <<config_hash, uuids, raised, lastOp, lastSaved, runs, procVars, histVars,
                   saveVars, limVars, futures, results>>

\* the process is killed: nothing more is written
U_Kill ==
    /\ call.pc \in {"head", "scan", "close", "except"}
    /\ call' = [call EXCEPT !.pc = "killed"]
    /\ UNCHANGED <<storeVars, procVars, histVars, saveVars, limVars, futures, results>>

\* a later process resumes from the checkpoint file and scans the same app
U_Resume ==
    /\ call.pc \in {"returned", "killed"}
    /\ runs < MaxRuns
    /\ runs' = runs + 1
    /\ state' = Loaded(disk)
    /\ results' = <<>>
    /\ call' = [call EXCEPT !.pc = "head", !.idx = 1, !.result = None, !.remote = EmptyMap,
                            !.loaded = Loaded(disk).in_progress]
    /\ UNCHANGED <<disk, config_hash, uuids, raised, lastOp, lastSaved, procVars, histVars,
                   saveVars, limVars, futures>>

NextUnit ==
    \/ U_Head
    \/ U_Scan
    \/ U_Close
    \/ U_Except
    \/ U_Kill
    \/ U_Resume

SpecUnit == InitUnit /\ [][NextUnit]_vars

(***************************************************************************)
(* Orchestrator._discover_regions over the accounts of a run (SpecCache):  *)
(* processes that go through their accounts, discovering the regions of    *)
(* each, and can end after any account; later processes resume.  `call`    *)
(* holds the process: its accounts, what each account holds, the account   *)
(* it is at, the map each account of this run was given (`used`) and the   *)
(* map last probed for each label (`probed`).                              *)
(***************************************************************************)
CacheAccounts ==
    { <<"acct-a">>, <<"acct-a", "acct-b">>, <<"acct-b", "acct-a">> }

\* what a probe of the account finds: region -> app ids, in the dict's order
Holdings(label) ==
    IF label = "acct-a"
    THEN { << <<"us-east-1", <<"app-1">>>> >>, <<>> }
    ELSE { << <<"us-east-2", <<"app-3">>>> >>,
           << <<"us-east-1", <<"app-2">>>>, <<"us-east-2", <<"app-3">>>> >> }

InitCache ==
    /\ config_hash = ConfigHash(ScanConfig(<<"default">>, MainSelection, 1, FALSE))
    /\ state = FreshState(1, config_hash)
    /\ disk = Saved(state)
    /\ uuids = 1
    /\ raised = "none"
    /\ lastOp = Op("new", <<>>)
    /\ lastSaved = EmptyDict
    /\ runs = 1
    /\ IdleProcess
    /\ IdleSave
    /\ IdleLimiter
    /\ \E accounts \in CacheAccounts :
       \E holds \in [SeqToSet(accounts) -> UNION {Holdings(l) : l \in SeqToSet(accounts)}] :
          /\ \A l \in SeqToSet(accounts) : holds[l] \in Holdings(l)
          /\ call = [pc |-> "accounts", accounts |-> accounts, holds |-> holds, acct |-> 1,
                     resume |-> FALSE, used |-> <<>>, probed |-> EmptyMap]
    /\ futures = <<>>
    /\ results = <<>>

\* _discover_regions(account) for the account the process is at
DiscoverRegions ==
    LET label == call.accounts[call.acct]
        cached == get_discovered_regions(state)
    IN  /\ call.pc = "accounts"
        /\ call.acct <= Len(call.accounts)
        /\ IF call.resume /\ cached # <<>>
           THEN /\ call' = [call EXCEPT !.used = Append(@, cached), !.acct = @ + 1]
                /\ UNCHANGED <<state, disk>>
           ELSE /\ call' = [call EXCEPT !.used = Append(@, call.holds[label]),
                                        !.probed = Put(@, label, call.holds[label]),
                                        !.acct = @ + 1]
                /\ Checkpoint(DoSetDiscoveredRegions(state, call.holds[label]))
        /\ UNCHANGED <<config_hash, uuids, raised, lastOp, lastSaved, runs, procVars, histVars,
                       saveVars, limVars, futures, results>>

\* the process ends: after its last account, or interrupted before
DiscoverEnd ==
    /\ call.pc = "accounts"
    /\ call' = [call EXCEPT !.pc = "ended"]
    /\ UNCHANGED <<storeVars, procVars, histVars, saveVars, limVars, futures, results>>

\* the same command with --resume: initialize(resume=True) loads the file
DiscoverResume ==
    /\ call.pc = "ended"
    /\ runs < MaxRuns
    /\ runs' = runs + 1
    /\ state' = Loaded(disk)
    /\ call' = [call EXCEPT !.pc = "accounts", !.acct = 1, !.resume = TRUE, !.used = <<>>]
    /\ UNCHANGED <<disk, config_hash, uuids, raised, lastOp, lastSaved, procVars, histVars,
                   saveVars, limVars, futures, results>>

NextCache ==
    \/ DiscoverRegions
    \/ DiscoverEnd
    \/ DiscoverResume

SpecCache == InitCache /\ [][NextCache]_vars

(***************************************************************************)
(* RateLimiter.call_with_retry by two threads at once (SpecRace): the      *)
(* scanner threads of one account share one limiter.  acquire() is as in   *)
(* SpecLimiter; `self._total_retries += 1` is executed outside             *)
(* `with self._lock`, as a read of the attribute followed by a store.     *)
(***************************************************************************)
\* how an invocation of func ends for the two threads
RaceOutcomes ==
    { o \in FuncOutcomes :
        \/ o.kind = "ok"
        \/ o.code = "ThrottlingException" /\ o.status = 429
        \/ o.code = "NotFoundException" /\ o.status = 404 }

InitRace ==
    /\ IdleStore
    /\ IdleProcess
    /\ IdleSave
    /\ IdleMap
    /\ \E r \in {2, 8} : limiter = NewLimiter(r)
    /\ clock = 0
    /\ acq = [t \in LimThreads |-> IdleThread]

\* return func(*args, **kwargs); on a retryable ClientError the except
\* clause reads self._total_retries for the `+= 1`
RaceInvoke(t) ==
    /\ acq[t].pc = "invoke"
    /\ \E o \in RaceOutcomes :
        IF o.kind = "ok"
        THEN acq' = [acq EXCEPT ![t].pc = "done", ![t].invoked = @ + 1,
                                ![t].outcome = "returned"]
        ELSE IF ~Retryable(o)
        THEN acq' = [acq EXCEPT ![t].pc = "done", ![t].invoked = @ + 1,
                                ![t].outcome = "raised", ![t].last = Some(o)]
        ELSE acq' = [acq EXCEPT ![t].pc = "retried", ![t].invoked = @ + 1,
                                ![t].seen = limiter.total_retries,
                                ![t].last = Some(o)]
    /\ UNCHANGED <<storeVars, procVars, histVars, saveVars, mapVars, limiter, clock>>

\* the sum is stored in self._total_retries; then the backoff sleep, or
\* the end of the loop and RateLimitExceededError
RaceStore(t) ==
    /\ acq[t].pc = "retried"
    /\ limiter' = [limiter EXCEPT !.total_retries = Retried(acq[t].seen)]
    /\ acq' = IF LastAttempt(acq[t].attempt)
              THEN [acq EXCEPT ![t].pc = "done", ![t].outcome = "RateLimitExceededError"]
              ELSE [acq EXCEPT ![t].pc = "backoff", ![t].slept = @ + 1]
    /\ UNCHANGED <<storeVars, procVars, histVars, saveVars, mapVars, clock>>

NextRace ==
    \/ \E t \in LimThreads : RetryCall(t)
    \/ \E t \in LimThreads : AcquireTry(t)
    \/ \E t \in LimThreads : AcquireCount(t)
    \/ \E t \in LimThreads : AcquireWake(t)
    \/ \E t \in LimThreads : RaceInvoke(t)
    \/ \E t \in LimThreads : RaceStore(t)
    \/ \E t \in LimThreads : RetryBackoff(t)
    \/ Tick

SpecRace == InitRace /\ [][NextRace]_vars

(***************************************************************************)
(* RateLimiter with requests_per_second <= 1 (SpecSlow): acquire() as in   *)
(* SpecLimiter, with the clock counted in seconds, so that a limiter       *)
(* built with p / Whole requests per second holds p parts of a token and   *)
(* gains p parts per tick.                                                 *)
(***************************************************************************)
\* RateLimiter(p / Whole) at time 0
SlowLimiter(p) ==
    [tokens |-> p, max_tokens |-> p, refill_rate |-> p,
     last_refill |-> 0, total_calls |-> 0, total_retries |-> 0, lock |-> "none"]

InitSlow ==
    /\ IdleStore
    /\ IdleProcess
    /\ IdleSave
    /\ IdleMap
    /\ \E p \in 1..Whole : limiter = SlowLimiter(p)
    /\ clock = 0
    /\ acq = [t \in LimThreads |-> IdleThread]

SpecSlow == InitSlow /\ [][NextLimiter]_vars

(***************************************************************************)
(* Discovery over a paged listing and the scan that follows (SpecPages):   *)
(* one fresh run of one account.  `call` holds what GetApps of each region *)
(* lists, page by page, the regions the run probes and its position;       *)
(* `results` is regions_with_apps, as the list of the dict's items.        *)
(***************************************************************************)
\* what the service lists for a region: the Item lists of its pages (every
\* page but the last comes with a NextToken)
Listings ==
    { <<>>, << <<"app-1">> >>, << <<"app-1", "app-2">> >>, << <<"app-1">>, <<"app-2">> >> }

\* every application id of a listing
Listed(pages) == UNION { SeqToSet(pages[i]) : i \in 1..Len(pages) }

\* client.get_apps(PageSize="100"): the response to a request without Token
get_apps(pages) ==
    IF pages = <<>> THEN [Item |-> <<>>, NextToken |-> FALSE]
    ELSE [Item |-> pages[1], NextToken |-> Len(pages) > 1]

\* response.get("ApplicationsResponse", {}).get("Item", []) of the one
\* call, in probe_region and in the --region branch alike
probe_region(region, pages) == <<region, get_apps(pages).Item>>

\* --region us-east-1, or none (auto-discovery over PINPOINT_REGIONS)
PagesRegions == { <<>>, <<"us-east-1">> }

PageScanners == SelectSeq(get_active_scanners(<<"segments", "applications">>, FALSE), PerApp)

InitPages ==
    /\ config_hash = ConfigHash(ScanConfig(<<"default">>, <<"segments", "applications">>, 1, FALSE))
    /\ state = FreshState(1, config_hash)
    /\ disk = Saved(state)
    /\ uuids = 1
    /\ raised = "none"
    /\ lastOp = Op("new", <<>>)
    /\ lastSaved = EmptyDict
    /\ runs = 1
    /\ IdleProcess
    /\ IdleSave
    /\ IdleLimiter
    /\ \E listing \in [SeqToSet(PINPOINT_REGIONS) -> Listings] : \E regions \in PagesRegions :
          call = [pc |-> "probe", listing |-> listing, i |-> 1,
                  regions |-> IF regions # <<>> THEN regions ELSE PINPOINT_REGIONS]
    /\ futures = <<>>
    /\ results = <<>>

\* the probe of one region; a region without app ids gets no entry
G_Probe ==
    /\ call.pc = "probe"
    /\ call.i <= Len(call.regions)
    /\ LET p == probe_region(call.regions[call.i], call.listing[call.regions[call.i]])
       IN results' = IF p[2] # <<>> THEN Append(results, p) ELSE results
    /\ call' = [call EXCEPT !.i = @ + 1]
    /\ UNCHANGED <<storeVars, procVars, histVars, saveVars, limVars, futures>>

\* self.checkpoint.set_discovered_regions(regions_with_apps); return
G_Record ==
    /\ call.pc = "probe"
    /\ call.i > Len(call.regions)
    /\ Checkpoint(DoSetDiscoveredRegions(state, results))
    /\ call' = [call EXCEPT !.pc = "scan", !.i = 1]
    /\ UNCHANGED <<config_hash, uuids, raised, lastOp, lastSaved, runs, procVars, histVars,
                   saveVars, limVars, futures, results>>

\* the units of the region being scanned that are not completed yet
PageUnits ==
    { CkKey(PageScanners[n], results[call.i][1], a) :
        n \in 1..Len(PageScanners), a \in SeqToSet(results[call.i][2]) }
    \ DOMAIN state.completed

\* _scan_single_app, for some app of the region: its next unit runs and
\* is marked completed
G_Unit ==
    /\ call.pc = "scan"
    /\ call.i <= Len(results)
    /\ \E key \in PageUnits :
        /\ \A n \in 1..Len(PageScanners) :
              Priority(PageScanners[n]) < Priority(key[1]) =>
                  is_completed(state, CkKey(PageScanners[n], key[2], key[3]))
        /\ Checkpoint(DoMarkCompleted(DoMarkInProgress(state, key), key, 1,
                                      <<ScanResult(key[1], key[2], key[3], ScanPayload(key[1]))>>))
    /\ UNCHANGED <<config_hash, uuids, raised, lastOp, lastSaved, runs, procVars, histVars,
                   saveVars, limVars, mapVars>>

\* map_parallel has returned: the loop of _scan_account takes the next
\* region, or ends
G_NextRegion ==
    /\ call.pc = "scan"
    /\ \/ /\ call.i <= Len(results)
          /\ PageUnits = {}
          /\ call' = [call EXCEPT !.i = @ + 1]
       \/ /\ call.i > Len(results)
          /\ call' = [call EXCEPT !.pc = "done"]
    /\ UNCHANGED <<storeVars, procVars, histVars, saveVars, limVars, futures, results>>

NextPages ==
    \/ G_Probe
    \/ G_Record
    \/ G_Unit
    \/ G_NextRegion

SpecPages == InitPages /\ [][NextPages]_vars

(***************************************************************************)
(* SpecFault: one run of the orchestrator in which a _save made by a       *)
(* scanner unit can raise CheckpointError.  The steps without such a call  *)
(* are those of Spec; a unit gets one more position, "handle", for its     *)
(* `except Exception as e: self.checkpoint.mark_error(ck_key, str(e))`.    *)
(***************************************************************************)
\* the _save of a call raises
SaveRaises(saves, io) == saves /\ io # "ok"

\* a checkpoint method that changes _state to new and then, if it saves,
\* writes the file or raises CheckpointError
FaultyCall(new, saves, io) ==
    /\ state' = new
    /\ disk' = IF saves /\ io = "ok" THEN Saved(new) ELSE disk
    /\ faults' = IF SaveRaises(saves, io) THEN faults + 1 ELSE faults

\* try: self.checkpoint.mark_in_progress(ck_key), on the main thread
F_AsMark ==
    /\ pc = "as_mark"
    /\ \E io \in IoOutcomes :
        LET saves == AsKey \notin SeqToSet(state.in_progress)
        IN /\ FaultyCall(DoMarkInProgress(state, AsKey), saves, io)
           /\ pc' = IF SaveRaises(saves, io) THEN "as_handle" ELSE "as_scan"
    /\ UNCHANGED <<config_hash, uuids, raised, lastOp, lastSaved, runs, config,
                   shutdown, ctrl_c_count, acct, regionsTodo, toSubmit, queue,
                   running, asIdx, reports, exitCode, histVars, tmp, lock, calls,
                   mapVars, limVars>>

\* scanner.scan() raises, or returns and mark_completed is called
F_AsDone ==
    /\ pc = "as_scan"
    /\ \E outcome \in ScanOutcomes : \E io \in IoOutcomes :
        IF outcome = "ok"
        THEN /\ FaultyCall(UnitDone(state, AsKey, "ok"), TRUE, io)
             /\ pc' = IF SaveRaises(TRUE, io) THEN "as_handle" ELSE "as_head"
             /\ asIdx' = IF SaveRaises(TRUE, io) THEN asIdx ELSE asIdx + 1
        ELSE /\ pc' = "as_handle"
             /\ UNCHANGED <<state, disk, faults, asIdx>>
    /\ UNCHANGED <<config_hash, uuids, raised, lastOp, lastSaved, runs, config,
                   shutdown, ctrl_c_count, acct, regionsTodo, toSubmit, queue,
                   running, reports, exitCode, histVars, tmp, lock, calls, mapVars,
                   limVars>>

\* except Exception as e: self.checkpoint.mark_error(ck_key, str(e)); when
\* this raises, the CheckpointError leaves _scan_region and _scan_account
\* and run() exits with status 1
F_AsHandle ==
    /\ pc = "as_handle"
    /\ \E io \in IoOutcomes :
        /\ FaultyCall(DoMarkError(state, AsKey, "boom"), TRUE, io)
        /\ IF SaveRaises(TRUE, io)
           THEN /\ raised' = "CheckpointError"
                /\ Exit(1)
                /\ UNCHANGED asIdx
           ELSE /\ pc' = "as_head"
                /\ asIdx' = asIdx + 1
                /\ UNCHANGED <<raised, exitCode>>
    /\ UNCHANGED <<config_hash, uuids, lastOp, lastSaved, runs, config, shutdown,
                   ctrl_c_count, acct, regionsTodo, toSubmit, queue, running,
                   reports, histVars, tmp, lock, calls, mapVars, limVars>>

\* try: self.checkpoint.mark_in_progress(ck_key), in a worker thread
F_WMark(app_id) ==
    /\ app_id \in DOMAIN running
    /\ running[app_id].pc = "mark"
    /\ \E io \in IoOutcomes :
        LET saves == WKey(app_id) \notin SeqToSet(state.in_progress)
        IN /\ FaultyCall(DoMarkInProgress(state, WKey(app_id)), saves, io)
           /\ running' = [running EXCEPT ![app_id].pc =
                             IF SaveRaises(saves, io) THEN "handle" ELSE "scan"]
    /\ UNCHANGED <<config_hash, uuids, raised, lastOp, lastSaved, runs,
                   procVarsButRunning, histVars, tmp, lock, calls, mapVars, limVars>>

\* scanner.scan() raises, or returns and mark_completed is called
F_WDone(app_id) ==
    /\ app_id \in DOMAIN running
    /\ running[app_id].pc = "scan"
    /\ \E outcome \in ScanOutcomes : \E io \in IoOutcomes :
        IF outcome = "ok"
        THEN /\ FaultyCall(UnitDone(state, WKey(app_id), "ok"), TRUE, io)
             /\ running' = IF SaveRaises(TRUE, io)
                           THEN [running EXCEPT ![app_id].pc = "handle"]
                           ELSE [running EXCEPT ![app_id].pc = "head",
                                                ![app_id].idx = @ + 1]
        ELSE /\ running' = [running EXCEPT ![app_id].pc = "handle"]
             /\ UNCHANGED <<state, disk, faults>>
    /\ UNCHANGED <<config_hash, uuids, raised, lastOp, lastSaved, runs,
                   procVarsButRunning, histVars, tmp, lock, calls, mapVars, limVars>>

\* except Exception as e: self.checkpoint.mark_error(ck_key, str(e)); when
\* this raises, the CheckpointError ends _scan_single_app and the future;
\* map_parallel's `except Exception` makes it the tuple (app_id, None, e),
\* which _scan_region logs
F_WHandle(app_id) ==
    /\ app_id \in DOMAIN running
    /\ running[app_id].pc = "handle"
    /\ \E io \in IoOutcomes :
        /\ FaultyCall(DoMarkError(state, WKey(app_id), "boom"), TRUE, io)
        /\ IF SaveRaises(TRUE, io)
           THEN /\ running' = Without(running, app_id)
                /\ results' = Append(results, <<app_id, None, Some("CheckpointError")>>)
           ELSE /\ running' = [running EXCEPT ![app_id].pc = "head",
                                              ![app_id].idx = @ + 1]
                /\ UNCHANGED results
    /\ UNCHANGED <<config_hash, uuids, raised, lastOp, lastSaved, runs,
                   procVarsButRunning, histVars, tmp, lock, calls, call, futures,
                   limVars>>

NextFault ==
    \/ M_Initialize
    \/ M_AcctHead
    \/ M_Resolve
    \/ M_Discover
    \/ M_RegionHead
    \/ M_Submit
    \/ M_Wait
    \/ M_AsHead
    \/ F_AsMark
    \/ F_AsDone
    \/ F_AsHandle
    \/ W_Start
    \/ \E app_id \in SeqToSet(AppIds) : W_Head(app_id)
    \/ \E app_id \in SeqToSet(AppIds) : F_WMark(app_id)
    \/ \E app_id \in SeqToSet(AppIds) : F_WDone(app_id)
    \/ \E app_id \in SeqToSet(AppIds) : F_WHandle(app_id)
    \/ M_Report
    \/ M_CleanupCheck
    \/ M_Cleanup
    \/ M_Finish

SpecFault == Init /\ [][NextFault]_vars

(***************************************************************************)
(* Properties of the checkpoint store (SpecStore).                         *)
(***************************************************************************)
\* C2: is_completed(k) answers true right after mark_completed(k, ...) and
\* stays true through every later call on the same store; mark_error,
\* mark_in_progress and mark_completed of another key never turn it from
\* false to true.
C2_CompletedSticky ==
    [][ \A k \in StoreKeys :
          /\ lastOp' = Op("mark_completed", k) => is_completed(state', k)
          /\ (is_completed(state, k) /\ lastOp'.op \notin {"new", "initialize", "resume"})
                => is_completed(state', k)
          /\ ( \/ lastOp'.op \in {"mark_error", "mark_in_progress"}
               \/ (lastOp'.op = "mark_completed" /\ lastOp'.key # k) )
                => (is_completed(state', k) => is_completed(state, k)) ]_vars

C2_Witness ==
    \E k \in StoreKeys :
        /\ lastOp = Op("mark_error", k)
        /\ is_completed(state, k)
        /\ \E other \in StoreKeys : ~is_completed(state, other)

\* what all the parts of the state other than the scan results satisfy
\* when a new store has resumed the file of the store before it
ResumedPlainParts ==
    /\ state.run_id = lastSaved.run_id
    /\ state.config_hash = lastSaved.config_hash
    /\ state.completed = lastSaved.completed
    /\ state.in_progress = lastSaved.in_progress
    /\ state.discovered_regions = lastSaved.discovered_regions
    /\ state.errors = lastSaved.errors

Resumed == lastOp.op = "resume" /\ raised = "none"

\* C3 (as the code has it): after a new store on the same directory has
\* resumed with the same fingerprint, its run id, completed keys, discovered
\* regions and recorded errors equal those last written, and its scan
\* results equal the JSON form of those last written: a value that is not
\* JSON-native (a datetime) comes back as its str().
C3_RoundTripJson ==
    Resumed =>
        /\ ResumedPlainParts
        /\ DOMAIN get_scan_results(state) = DOMAIN get_scan_results(lastSaved)
        /\ \A k \in DOMAIN get_scan_results(state) :
              get_scan_results(state)[k] = JsonResult(get_scan_results(lastSaved)[k])

C3_Witness ==
    /\ Resumed
    /\ state.errors # <<>>
    /\ state.discovered_regions # <<>>
    /\ \E k \in DOMAIN state.completed :
          /\ k \in DOMAIN get_scan_results(state)
          /\ get_scan_results(state)[k].resources = "str(datetime)"

\* C3 as stated: the scan results too equal those last written.
C3_RoundTripExact ==
    Resumed =>
        /\ ResumedPlainParts
        /\ get_scan_results(state) = get_scan_results(lastSaved)

\* C4 as stated: initialize(resume=True) on a file with another fingerprint
\* raises ConfigMismatchError and leaves the file and the store's in-memory
\* state as they were before the call (a store not yet initialized holds {}).
C4_MismatchMutatesNothing ==
    (lastOp.op = "resume" /\ raised = "ConfigMismatchError") =>
        /\ disk = Saved(lastSaved)
        /\ state = EmptyDict

Count(list, x) == Cardinality({i \in 1..Len(list) : list[i] = x})

\* C16: `in_progress` never holds a key twice: however often
\* mark_in_progress(k) is called there is exactly one entry for k after it,
\* and after mark_completed(k) or mark_error(k) there is none.
C16_InProgressHasNoDuplicates ==
    /\ \A k \in StoreKeys : Count(state.in_progress, k) <= 1
    /\ lastOp.op = "mark_in_progress" => Count(state.in_progress, lastOp.key) = 1
    /\ lastOp.op \in {"mark_completed", "mark_error"} =>
          Count(state.in_progress, lastOp.key) = 0

C16_Witness ==
    \E k \in StoreKeys : \E other \in StoreKeys \ {k} :
        /\ lastOp = Op("mark_in_progress", k)
        /\ state.in_progress = <<k, other>>

(***************************************************************************)
(* Properties of _save under threads, failures and crashes (SpecSave).     *)
(***************************************************************************)
\* C13 as stated: whenever a mutating method has returned normally, the
\* file holds exactly the store's in-memory state.
C13_WriteThrough ==
    (pc = "idle" /\ lock = "none" /\ raised = "none") =>
        /\ disk.exists
        /\ disk.complete
        /\ disk.doc = JsonDump(state)

\* C14: the checkpoint file is at every instant a whole document, also
\* when the process dies at any step of a save or a step of it fails: the
\* file changes only by the rename, which puts the whole new state in
\* place, so that the next process can load it; and when a save has
\* returned normally no temp file is left.
C14_AtomicReplace ==
    /\ [](/\ disk.exists
          /\ disk.complete
          /\ pc = "recovered" => (raised = "none" /\ state = Loaded(disk)))
    /\ [][ /\ disk' # disk => disk' = Saved(state)
           /\ \A t \in SaveThreads :
                 (/\ pc' = "idle"
                  /\ calls[t].pc = "replace"
                  /\ calls'[t].pc = "idle"
                  /\ raised' = "none")
                    => (~tmp'.exists /\ disk' = Saved(state)) ]_vars

C14_Witness ==
    /\ pc = "recovered"
    /\ raised = "none"
    /\ tmp.exists
    /\ ~tmp.complete
    /\ DOMAIN state.completed # {}

\* what the last call of thread t that returned normally has left in st
Effect(t, st) ==
    LET k == ThreadKey(t)
        l == calls[t].last
    IN /\ l = "mark_in_progress" => Count(st.in_progress, k) = 1
       /\ l = "mark_completed" =>
             /\ k \in DOMAIN st.completed
             /\ k \in DOMAIN st.scan_results
             /\ Count(st.in_progress, k) = 0
       /\ l = "mark_error" =>
             /\ \E i \in 1..Len(st.errors) : st.errors[i].key = k
             /\ Count(st.in_progress, k) = 0
       /\ l = "set_discovered_regions" => st.discovered_regions # <<>>

\* C15: threads calling the mutating methods on different keys are
\* serialized: at most one of them is between its change of the state and
\* the end of its save (so the temp file has one writer), and when no call
\* is under way and no I/O has failed, the state in memory and the file
\* both hold what every thread's last call has done.
C15_WritesSerialized ==
    /\ Cardinality({t \in SaveThreads : calls[t].pc # "idle"}) <= 1
    /\ (pc = "idle" /\ faults = 0 /\ lock = "none") =>
          /\ disk = Saved(state)
          /\ \A t \in SaveThreads : Effect(t, state) /\ Effect(t, disk.doc)

C15_Witness ==
    /\ pc = "idle"
    /\ faults = 0
    /\ lock = "none"
    /\ calls["t1"].last = "mark_completed"
    /\ calls["t2"].last = "mark_error"
    /\ state.in_progress = <<>>
    /\ disk = Saved(state)

(***************************************************************************)
(* Properties of a run of the orchestrator (Spec).                         *)
(***************************************************************************)
\* the keys of the units of one account: every per-app scanner on every
\* app of every region, every account-level scanner on every region
ExpectedKeys(regions) ==
    UNION { { CkKey(s, regions[i][1], a) :
                  s \in SeqToSet(per_app_scanners), a \in SeqToSet(regions[i][2]) }
            \cup { AccountKey(s, regions[i][1]) : s \in SeqToSet(account_scanners) } :
            i \in 1..Len(regions) }

\* the units this run has logged with a status
UnitsLogged(what) == {u \in DOMAIN ulog : ulog[u] = what}

\* the units between their mark_in_progress and the call that closes them
InFlight ==
    (IF pc = "as_scan" THEN {Unit(AsKey)} ELSE {})
    \cup {Unit(WKey(a)) : a \in {x \in DOMAIN running : running[x].pc = "scan"}}

\* the units admitted by their loop but not yet closed
Admitted ==
    (IF pc \in {"as_mark", "as_scan"} THEN {Unit(AsKey)} ELSE {})
    \cup {Unit(WKey(a)) : a \in {x \in DOMAIN running : running[x].pc \in {"mark", "scan"}}}

\* the first SIGINT came after initialize() and before run() tested the
\* flag that guards cleanup()
MidRun == sigPc \notin {"none", "start", "cleanup", "finish"}

\* C1: in a resumed run no key the loaded checkpoint holds as completed is
\* admitted, marked in-progress, scanned or marked again, by the per-app
\* scanners and by the account-level ones alike: its unit is skipped (or
\* the loop has stopped before it).
C1_CompletedNeverRescanned ==
    /\ \A u \in DOMAIN ulog : u[2] \in loaded.completed => ulog[u] = "skipped"
    /\ \A u \in Admitted : u[2] \notin loaded.completed

C1_Witness ==
    /\ config.resume
    /\ \E u \in UnitsLogged("skipped") : u[2] \in loaded.completed /\ u[2][3] = "account"
    /\ \E u \in UnitsLogged("skipped") : u[2] \in loaded.completed /\ u[2][3] # "account"
    /\ UnitsLogged("ok") # {}

\* C5: a one-account run in which no shutdown is requested and no scanner
\* raises reaches cleanup() with exactly the keys of its discovered regions
\* and apps in `completed` and with `in_progress` empty.
C5_FullRunCompletesAll ==
    ( /\ pc = "cleanup"
      /\ Len(config.accounts) = 1
      /\ ctrl_c_count = 0
      /\ UnitsLogged("err") = {} )
    => /\ Len(found) = 1
       /\ found[1] = get_discovered_regions(state)
       /\ DOMAIN state.completed = ExpectedKeys(found[1])
       /\ state.in_progress = <<>>

C5_Witness ==
    /\ pc = "cleanup"
    /\ Len(config.accounts) = 1
    /\ ctrl_c_count = 0
    /\ UnitsLogged("err") = {}
    /\ Len(found) = 1
    /\ Len(found[1]) = 2
    /\ Cardinality(DOMAIN state.completed) = 6
    /\ Cardinality(UnitsLogged("ok")) = 6

\* C6 (as the code has it): when the first SIGINT comes in the middle of a
\* run, the checkpoint file is on disk when the run ends; and a unit whose
\* loop-boundary check saw the flag set is never admitted, marked
\* in-progress or closed by this run, so that its key is in `completed`
\* only if the loaded checkpoint held it or the same key's unit of another
\* account completed.
C6_StoppedUnitsUntouched ==
    /\ (pc = "exited" /\ MidRun) => disk.exists
    /\ stopped \cap (DOMAIN ulog \cup Admitted) = {}
    /\ \A u \in stopped :
          is_completed(state, u[2]) =>
              \/ u[2] \in loaded.completed
              \/ \E v \in UnitsLogged("ok") : v[2] = u[2] /\ v # u

C6_Witness ==
    /\ pc = "exited"
    /\ MidRun
    /\ ctrl_c_count = 1
    /\ disk.exists
    /\ \E u \in stopped : ~is_completed(state, u[2])
    /\ UnitsLogged("ok") # {}

\* C6 as stated: no unit checked after the flag was set appears in
\* `completed`.
C6_StoppedNeverCompleted ==
    /\ (pc = "exited" /\ MidRun) => disk.exists
    /\ stopped \cap (DOMAIN ulog \cup Admitted) = {}
    /\ \A u \in stopped : ~is_completed(state, u[2])

\* what a run that got exactly one SIGINT in its middle, and no fatal error,
\* has done when it ends
OneSignalRunEnded ==
    pc = "exited" /\ MidRun /\ ctrl_c_count = 1 /\ raised = "none"

\* scanning has ended after a shutdown request
ScanningEndedAfterSignal ==
    pc \in {"report", "cleanup_check"} /\ MidRun

C8_ForcedQuit ==
    /\ []((pc = "exited" /\ ctrl_c_count >= 2) => exitCode = 1)
    /\ [][ (ctrl_c_count' >= 2 /\ runs' = runs) =>
              /\ reports' = reports
              /\ disk.exists => disk'.exists ]_vars

C8_Witness ==
    /\ pc = "exited"
    /\ ctrl_c_count = 2
    /\ exitCode = 1
    /\ reports = 0
    /\ disk.exists
    /\ UnitsLogged("marked") # {}

C10_UnitsClosedOnce ==
    /\ \A u \in InFlight : ulog[u] = "marked"
    /\ raised # "ConfigMismatchError" =>
          /\ \A u \in UnitsLogged("marked") : u[2] \in SeqToSet(state.in_progress)
          /\ SeqToSet(state.in_progress) \subseteq
                loaded.in_progress \cup {u[2] : u \in UnitsLogged("marked")}
          /\ DOMAIN state.completed =
                loaded.completed \cup {u[2] : u \in UnitsLogged("ok")}
          /\ Len(state.errors) = loaded.errors + Cardinality(UnitsLogged("err"))
          /\ \A u \in UnitsLogged("err") :
                \E i \in 1..Len(state.errors) : state.errors[i].key = u[2]
    /\ (pc = "report" /\ ctrl_c_count = 0) =>
          /\ Len(found) = Len(config.accounts)
          /\ \A i \in 1..Len(found) : \A k \in ExpectedKeys(found[i]) :
                /\ <<i, k>> \in DOMAIN ulog
                /\ ulog[<<i, k>>] \in {"ok", "err", "skipped"}

C10_Witness ==
    /\ pc = "report"
    /\ ctrl_c_count = 0
    /\ \E u \in UnitsLogged("err") : \E v \in UnitsLogged("ok") :
          /\ v[2][3] = u[2][3]
          /\ v[2][2] = u[2][2]
          /\ v[2][1] # u[2][1]
    /\ \E u \in UnitsLogged("err") : \E v \in UnitsLogged("ok") : v[2][2] # u[2][2]

(***************************************************************************)
(* Properties of map_parallel (SpecMap).                                   *)
(***************************************************************************)
\* the items that were submitted to the pool, in submission order
Submitted == [i \in 1..Len(futures) |-> futures[i].item]

Succeeded(x) == <<x, Some(func(x)), None>>

Failed(x) == <<x, None, Some("ValueError")>>

\* C17: with no shutdown requested and a func that raises for none of the
\* items, the returned list has one tuple (item, func(item), None) for each
\* of the N items (counted with their repetitions) and nothing else,
\* whatever the worker count and the order in which the calls finish.
C17_OneTuplePerItem ==
    (/\ call.pc = "returned"
     /\ ~shutdown
     /\ \A i \in 1..Len(call.items) : call.items[i] \notin call.raises) =>
        /\ Len(results) = Len(call.items)
        /\ \A x \in MapItems : Count(results, Succeeded(x)) = Count(call.items, x)

C17_Witness ==
    /\ call.pc = "returned"
    /\ ~shutdown
    /\ call.raises = {}
    /\ call.workers = 2
    /\ Len(call.items) >= 3
    /\ call.items[1] # call.items[2]
    /\ call.items[3] = call.items[1]
    /\ Len(results) = Len(call.items)
    /\ results[1][1] # call.items[1]

\* C18: when map_parallel has returned, every submitted item for which
\* func raises has its tuple (item, None, error) in the list and every
\* other submitted item has its tuple (item, func(item), None): a failure
\* neither stops nor loses another item.
C18_FailureIsIsolated ==
    call.pc = "returned" =>
        /\ Len(results) = Len(futures)
        /\ \A x \in MapItems :
              IF x \in call.raises
              THEN /\ Count(results, Failed(x)) = Count(Submitted, x)
                   /\ Count(results, Succeeded(x)) = 0
              ELSE /\ Count(results, Succeeded(x)) = Count(Submitted, x)
                   /\ Count(results, Failed(x)) = 0

C18_Witness ==
    /\ call.pc = "returned"
    /\ ~shutdown
    /\ Len(call.items) >= 3
    /\ call.items[1] \notin call.raises
    /\ call.items[2] \in call.raises
    /\ call.items[3] \notin call.raises
    /\ results[1] = Failed(call.items[2])
    /\ Len(results) = Len(call.items)

\* C19: an item whose check in the submit loop sees the shutdown flag set
\* is not submitted, nor is any later item, so func is never called for
\* them and they have no tuple; the items submitted before are never
\* cancelled, all finish and all have their tuple when the call returns;
\* the flag, once set, stays set whatever is called afterwards.
C19_ShutdownDrains ==
    /\ [](/\ Len(futures) <= Len(call.items)
          /\ \A i \in 1..Len(futures) : futures[i].item = call.items[i]
          /\ (call.pc \in {"collect", "returned"} /\ Len(futures) < Len(call.items))
                => shutdown
          /\ call.pc = "returned" =>
                /\ \A i \in 1..Len(futures) : Finished(futures[i])
                /\ Len(results) = Len(futures)
                /\ \A x \in MapItems :
                      Count(results, Succeeded(x)) + Count(results, Failed(x))
                         = Count(Submitted, x))
    /\ [][ /\ shutdown => shutdown'
           /\ (call.pc = "check" /\ shutdown) => call'.pc \in {"check", "collect"}
           /\ call.pc \in {"collect", "returned"} =>
                 (Len(futures') = Len(futures) /\ call'.pc # "submit")
           /\ \A i \in 1..Len(futures) :
                 /\ futures[i].status # "pending" => futures'[i].status # "pending"
                 /\ Finished(futures[i]) => futures'[i].status = futures[i].status ]_vars

C19_Witness ==
    /\ call.pc = "collect"
    /\ shutdown
    /\ Len(futures) = 2
    /\ Len(call.items) >= 3
    /\ futures[1].status = "running"
    /\ futures[2].status = "pending"

(***************************************************************************)
(* Properties of the RateLimiter (SpecLimiter).                            *)
(***************************************************************************)
\* C20: the bucket never holds less than nothing nor more than its
\* capacity; acquire() returns only by taking one whole token that was
\* there after the refill, and counts itself once; hence the acquires that
\* have returned never exceed the capacity plus what time has refilled, so
\* that with no time elapsed the call after `capacity` acquires waits
\* (acquire has no raising path) until the clock has advanced.
C20_BucketBounds ==
    /\ [](/\ 0 <= limiter.tokens
          /\ limiter.tokens <= limiter.max_tokens
          /\ limiter.total_calls = acq["r1"].returned + acq["r2"].returned
          /\ (limiter.total_calls + Cardinality({t \in LimThreads : acq[t].pc = "count"}))
                * Whole <= limiter.max_tokens + clock * limiter.refill_rate
          /\ \A t \in LimThreads : acq[t].returned <= acq[t].calls)
    /\ [][ /\ limiter'.tokens < limiter.tokens =>
                 /\ HasToken(Refilled(limiter, clock))
                 /\ limiter'.tokens = Refilled(limiter, clock).tokens - Whole
                 /\ \E t \in LimThreads : acq[t].pc = "lock" /\ acq'[t].pc = "count"
           /\ \A t \in LimThreads :
                 /\ (acq[t].pc # "count" /\ acq'[t].pc = "count") =>
                       limiter'.tokens = Refilled(limiter, clock).tokens - Whole
                 /\ acq'[t].returned # acq[t].returned =>
                       /\ acq[t].pc = "count"
                       /\ acq'[t].returned = acq[t].returned + 1
                       /\ limiter'.total_calls = limiter.total_calls + 1
           /\ limiter'.total_calls # limiter.total_calls =>
                 \E t \in LimThreads : acq'[t].returned = acq[t].returned + 1 ]_vars

C20_Witness ==
    /\ clock = 0
    /\ limiter.total_calls * Whole = limiter.max_tokens
    /\ limiter.tokens = 0
    /\ \E t \in LimThreads : acq[t].pc = "sleep"

(***************************************************************************)
(* Properties of a run with checkpoint save failures (SpecFault).          *)
(***************************************************************************)
\* C11 as stated: a run in which a save made by mark_in_progress,
\* mark_completed or mark_error of a scanner unit has failed ends with a
\* non-zero exit status, and its checkpoint file is not cleaned up.
C11_SaveFailureIsFatal ==
    (pc = "exited" /\ faults > 0) => (exitCode # 0 /\ disk.exists)

\* C21: under every interleaving of the threads, total_calls is the number
\* of acquire() calls that have returned (T * K once T threads have each
\* completed K of them); and from the moment an acquire takes its token to
\* the moment it has counted itself no other thread touches the limiter:
\* at most one thread is in between, and the limiter does not change under
\* it.
C21_CountedOncePerAcquire ==
    /\ [](/\ limiter.total_calls = acq["r1"].returned + acq["r2"].returned
          /\ Cardinality({t \in LimThreads : acq[t].pc = "count"}) <= 1
          /\ (\A t \in LimThreads : acq[t].pc = "idle") => limiter.total_calls = Calls
          /\ \A t \in LimThreads : acq[t].pc = "count" => limiter.lock = t)
    /\ [][ \A t \in LimThreads :
             /\ (acq[t].pc = "count" /\ acq'[t].pc = "count") => limiter' = limiter
             /\ (acq[t].pc = "count" /\ acq'[t].pc # "count") =>
                   limiter'.total_calls = limiter.total_calls + 1 ]_vars

C21_Witness ==
    /\ \A t \in LimThreads : acq[t].pc = "idle" /\ acq[t].returned = 2
    /\ limiter.total_calls = 4

(***************************************************************************)
(* Properties of call_with_retry (SpecRetry).                              *)
(***************************************************************************)
\* C22: a call that returns after k throttling or server failures (k <= 5)
\* has invoked the function k + 1 times, has gone through acquire() once
\* for each invocation (total_calls = k + 1) and has added exactly k to
\* total_retries; k is the number of backoff sleeps of the call.
C22_RetryThenSuccess ==
    acq["r1"].outcome = "returned" =>
        /\ acq["r1"].slept <= MAX_RETRIES
        /\ acq["r1"].invoked = acq["r1"].slept + 1
        /\ limiter.total_retries = acq["r1"].slept
        /\ acq["r1"].returned = acq["r1"].invoked
        /\ limiter.total_calls = acq["r1"].invoked

C22_Witness ==
    /\ acq["r1"].outcome = "returned"
    /\ limiter.total_retries = MAX_RETRIES
    /\ acq["r1"].invoked = MAX_RETRIES + 1

\* the failures the claims call throttling or server errors
ThrottlingOrServerError(o) ==
    /\ o.kind = "ClientError"
    /\ \/ o.code \in THROTTLE_ERROR_CODES
       \/ o.status = 429
       \/ o.status >= 500

\* C23 as stated: the rate-limit-exceeded error comes after exactly 5
\* invocations of the function.
C23_FiveAttempts ==
    acq["r1"].outcome = "RateLimitExceededError" => acq["r1"].invoked = 5

\* C23, amended: the function is never invoked more than 6 times (the
\* first attempt and MAX_RETRIES = 5 retries); a call whose every attempt
\* fails with a throttling or server error ends, after exactly 6
\* invocations and 5 backoff sleeps, with RateLimitExceededError raised
\* from the last of these failures; such a failure is never raised as it
\* is, and the call then returns nothing.
C23_ExhaustedAfterSixAttempts ==
    /\ acq["r1"].invoked <= MAX_RETRIES + 1
    /\ acq["r1"].attempt <= MAX_RETRIES
    /\ acq["r1"].outcome = "RateLimitExceededError" =>
          /\ acq["r1"].invoked = MAX_RETRIES + 1
          /\ acq["r1"].slept = MAX_RETRIES
          /\ limiter.total_retries = MAX_RETRIES + 1
          /\ acq["r1"].last # None
          /\ ThrottlingOrServerError(acq["r1"].last[1])
    /\ acq["r1"].outcome = "raised" => ~ThrottlingOrServerError(acq["r1"].last[1])
    /\ (acq["r1"].pc = "done" /\ limiter.total_retries = acq["r1"].invoked) =>
          acq["r1"].outcome = "RateLimitExceededError"

C23_Witness ==
    /\ acq["r1"].outcome = "RateLimitExceededError"
    /\ acq["r1"].invoked = 6
    /\ acq["r1"].last = Some([kind |-> "ClientError", code |-> "NotFoundException",
                              status |-> 500])

\* C24: an invocation's failure is followed by a backoff and a further
\* attempt exactly when it is a throttling or server error (and attempts
\* remain); every other failure, a ClientError of another kind or an
\* exception that is no ClientError, ends the call at once with that
\* failure: no backoff, no further invocation, total_retries unchanged.
C24_OnlyClassifiedRetried ==
    [][ /\ acq["r1"].pc = "done" => (acq' = acq /\ limiter' = limiter)
        /\ acq'["r1"].invoked # acq["r1"].invoked =>
          /\ acq'["r1"].pc = "backoff" =>
                /\ ThrottlingOrServerError(acq'["r1"].last[1])
                /\ limiter'.total_retries = limiter.total_retries + 1
          /\ (/\ acq'["r1"].last # None
              /\ acq'["r1"].outcome # "returned"
              /\ ThrottlingOrServerError(acq'["r1"].last[1])
              /\ acq["r1"].attempt < MAX_RETRIES) => acq'["r1"].pc = "backoff"
          /\ (/\ acq'["r1"].outcome # "returned"
              /\ ~ThrottlingOrServerError(acq'["r1"].last[1])) =>
                /\ acq'["r1"].outcome = "raised"
                /\ acq'["r1"].pc = "done"
                /\ acq'["r1"].slept = acq["r1"].slept
                /\ limiter' = limiter ]_vars

C24_Witness ==
    /\ acq["r1"].outcome = "raised"
    /\ acq["r1"].last = Some([kind |-> "ValueError", code |-> "", status |-> 0])
    /\ acq["r1"].slept = 2
    /\ limiter.total_retries = 2

(***************************************************************************)
(* Properties of config_hash (SpecHash).                                   *)
(***************************************************************************)
\* the two configurations of the pair have the same accounts, regions,
\* resource filters and scanners as sets, and the same no_sms_voice_v2
SameRequest ==
    LET a == call.cfg[1]  b == call.cfg[2] IN
    /\ SeqToSet(a.accounts) = SeqToSet(b.accounts)
    /\ SeqToSet(a.regions) = SeqToSet(b.regions)
    /\ SeqToSet(a.app_ids) = SeqToSet(b.app_ids)
    /\ SeqToSet(a.scanners) = SeqToSet(b.scanners)
    /\ a.no_sms_voice_v2 = b.no_sms_voice_v2

BothHashed == call.pc = "hash" /\ results[1] # None /\ results[2] # None

\* C25: two configurations with the same sets of accounts, regions, resource
\* filters and scanners, in whatever order and with whatever worker count,
\* have the same fingerprint; configurations whose account sets or scanner
\* sets differ have different fingerprints.
C25_OrderIndependent ==
    BothHashed =>
        LET a == call.cfg[1]  b == call.cfg[2] IN
        /\ SameRequest => results[1] = results[2]
        /\ (\/ SeqToSet(a.accounts) # SeqToSet(b.accounts)
            \/ SeqToSet(a.scanners) # SeqToSet(b.scanners)) => results[1] # results[2]

(***************************************************************************)
(* Properties of _generate_report (SpecReport).                            *)
(***************************************************************************)
\* the results of all_results, over all its lists, that stand for a unit
Representations(all, key) ==
    UNION { { <<i, j>> : j \in { n \in 1..Len(all[i].list) :
                                   CkKey(all[i].list[n].scanner_name, all[i].list[n].region,
                                         all[i].list[n].app_id) = key } } :
            i \in 1..Len(all) }

\* C26: in the map handed to scoring and reporting every unit completed in
\* this run or a prior one is represented exactly once across all lists.
C26_EachUnitOnce ==
    call.pc = "done" =>
        \A key \in DOMAIN state.completed :
            Cardinality(Representations(call.all_results, key)) = 1

(***************************************************************************)
(* Properties of the account loop (Spec, SpecReport).                      *)
(***************************************************************************)
\* C27: in a multi-account scan a session failure for one account aborts
\* only that account: the others are still discovered and a report is made.
C27_SessionFailureAbortsOneAccount ==
    (pc = "exited" /\ raised = "AWSSessionError" /\ Len(config.accounts) > 1) =>
        /\ reports = 1
        /\ Len(found) = Len(config.accounts) - 1

\* C28: a failure to resolve the identity of an account whose session was
\* obtained is not fatal: the account is labelled "unknown", nothing of the
\* checkpoint or the results changes, and every unit of the account that
\* the checkpoint does not have as completed can be scanned, its result
\* filed under "unknown:<region>".
C28_UnknownIdentityProceeds ==
    /\ [](call.pc = "scan" =>
            /\ call.ids[call.acct] \in {"unknown", AccountIdOf(call.accounts[call.acct])}
            /\ \A key \in UnitsOf(call.accounts[call.acct], call.scanners) :
                 ENABLED R_ScanUnit(key) <=> ~is_completed(state, key))
    /\ [][ /\ (call.pc = "resolve" /\ call'.ids[call.acct] = "unknown") =>
                /\ call'.pc = "scan"
                /\ call'.acct = call.acct
                /\ state' = state /\ disk' = disk /\ results' = results
           /\ (call.pc = "scan" /\ call.ids[call.acct] = "unknown" /\ state' # state) =>
                \E key \in UnitsOf(call.accounts[call.acct], call.scanners) :
                    /\ ~is_completed(state, key) /\ is_completed(state', key)
                    /\ results' = Appended(results, <<"unknown", key[2]>>,
                                           get_scan_results(state')[key]) ]_vars

C28_Witness ==
    /\ call.pc = "done"
    /\ call.accounts = <<"acct-a", "acct-b">>
    /\ call.ids = <<"111111111111", "unknown">>
    /\ UnitsOf("acct-b", call.scanners) \subseteq DOMAIN state.completed
    /\ \E i \in 1..Len(call.all_results) : call.all_results[i].key = <<"unknown", "eu-west-1">>
    /\ runs = 1

(***************************************************************************)
(* Properties of discover_regions (SpecDiscover).                          *)
(***************************************************************************)
\* the regions whose probe succeeded and found at least one resource
RegionsFound ==
    { r \in SeqToSet(PINPOINT_REGIONS) :
        call.answers[r].kind = "ok" /\ call.answers[r].app_ids # <<>> }

\* C29: discover_regions returns exactly the map region -> resource ids of
\* the regions whose probe succeeded and found a resource; a probe that
\* fails, for whatever reason, never keeps the call from returning it.
C29_FailedProbeIsolated ==
    /\ call.pc # "raised"
    /\ call.pc = "returned" =>
          /\ DOMAIN results = RegionsFound
          /\ \A r \in RegionsFound : results[r] = call.answers[r].app_ids

(***************************************************************************)
(* Properties of a fresh initialize (SpecStore).                           *)
(***************************************************************************)
\* C30: initialize(resume=False), and initialize(resume=True) with no file,
\* creates a state with a new run id, the current fingerprint and empty
\* collections, and has it in the file when it returns, whatever file was
\* there before and whatever fingerprint that file had; only resume=True
\* with a file present does anything else.
C30_FreshInitialize ==
    /\ [](lastOp.op = "initialize" =>
            /\ raised = "none"
            /\ state.run_id = uuids
            /\ (lastOp.key[2].exists /\ lastOp.key[2].complete) =>
                   state.run_id # lastOp.key[2].doc.run_id
            /\ state.config_hash = config_hash
            /\ state.discovered_regions = <<>>
            /\ state.completed = EmptyMap
            /\ state.in_progress = <<>>
            /\ state.errors = <<>>
            /\ state.scan_results = EmptyMap
            /\ disk.exists /\ disk.complete /\ LoadOutcome(disk) = "ok"
            /\ Loaded(disk) = state)
    /\ [][ (lastOp.op = "new" /\ lastOp' # lastOp) =>
             /\ lastOp'.op \in {"initialize", "resume"}
             /\ lastOp'.op = "resume" => disk.exists
             /\ lastOp'.op = "initialize" =>
                   /\ uuids' = uuids + 1
                   /\ lastOp'.key[2] = disk
                   /\ ~(lastOp'.key[1] /\ disk.exists) ]_vars

C30_Witness ==
    /\ lastOp.op = "initialize"
    /\ lastOp.key[1] = FALSE
    /\ lastOp.key[2].exists
    /\ lastOp.key[2].doc.config_hash # config_hash
    /\ lastOp.key[2].doc.completed # EmptyMap
    /\ state.run_id = 2

(***************************************************************************)
(* Properties of a scanner unit (SpecUnit).                                *)
(***************************************************************************)
\* C31: a unit whose remote call ended with RateLimitExceededError has an
\* entry in the checkpoint's error list and is not marked completed, and the
\* loop goes on to the remaining units.
C31_RateLimitIsRecordedFailure ==
    call.pc \in {"head", "returned"} =>
        \A key \in DOMAIN call.remote :
            call.remote[key] = "RateLimitExceededError" =>
                /\ \E i \in 1..Len(state.errors) : state.errors[i].key = key
                /\ ~is_completed(state, key)

(***************************************************************************)
(* Properties of multi-account and resumed runs (Spec).                    *)
(***************************************************************************)
\* C32: in a fresh multi-account run without a shutdown request every unit
\* of every account is executed; none is skipped because another account
\* completed a unit with the same key.
C32_NoUnitSkippedAcrossAccounts ==
    ( /\ pc = "cleanup"
      /\ ~config.resume
      /\ ctrl_c_count = 0
      /\ Len(config.accounts) > 1 )
    => \A i \in 1..Len(found) : \A key \in ExpectedKeys(found[i]) :
          /\ <<i, key>> \in DOMAIN ulog
          /\ ulog[<<i, key>>] \in {"ok", "err"}

\* C33: when _discover_regions is called in a resumed run whose checkpoint
\* holds a non-empty discovered-regions map, the map used is the cached one,
\* nothing is probed or recorded, and the region loop starts on it; when the
\* run is not resumed or the cached map is empty, the map discovered is in
\* the checkpoint and in its file before any scanner of the account runs.
\* Every unit a run touches belongs to the map its account was given.
C33_CachedDiscovery ==
    /\ [](\A u \in DOMAIN ulog :
            /\ u[1] <= Len(found)
            /\ u[2] \in ExpectedKeys(found[u[1]]))
    /\ [][ Len(found') = Len(found) + 1 =>
             LET cached == state.discovered_regions
                 used == found'[Len(found')]
             IN  /\ pc = "discover"
                 /\ used # <<>> => (regionsTodo' = used /\ pc' = "region_head")
                 /\ \A u \in DOMAIN ulog' : u[1] # acct
                 /\ IF config.resume /\ cached # <<>>
                    THEN used = cached /\ state' = state /\ disk' = disk
                    ELSE /\ state'.discovered_regions = used
                         /\ disk' = Saved(state') ]_vars

C33_Witness ==
    /\ config.resume
    /\ Len(config.accounts) = 1
    /\ loaded.completed # {}
    /\ pc = "region_head"
    /\ Len(found) = 1
    /\ found[1] = state.discovered_regions
    /\ Len(found[1]) = 2
    /\ UnitsLogged("skipped") # {}

(***************************************************************************)
(* Properties of the cached region discovery (SpecCache).                  *)
(***************************************************************************)
\* C34: the region map a resumed run uses for an account is the map that
\* was discovered for that account, never the one of another account.
C34_DiscoveryKeptPerAccount ==
    call.resume =>
        \A i \in 1..Len(call.used) :
            call.accounts[i] \in DOMAIN call.probed =>
                call.used[i] = call.probed[call.accounts[i]]

\* C35: a process resumed after a kill that left keys in in_progress
\* executes each of those units again (none of them is completed), and when
\* its loop has ended in_progress is empty and every such key is in
\* completed or has an entry in errors.
C35_StaleUnitsReexecuted ==
    /\ \A k \in SeqToSet(call.loaded) : k \notin DOMAIN call.remote => ~is_completed(state, k)
    /\ (call.pc = "returned" /\ runs > 1) =>
          /\ state.in_progress = <<>>
          /\ disk = Saved(state)
          /\ \A k \in SeqToSet(call.loaded) :
                /\ k \in DOMAIN call.remote
                /\ \/ is_completed(state, k)
                   \/ \E n \in 1..Len(state.errors) : state.errors[n].key = k

C35_Witness ==
    /\ call.pc = "returned"
    /\ runs = 2
    /\ call.loaded = <<CkKey("segments", "us-east-1", "app-1")>>
    /\ is_completed(state, CkKey("segments", "us-east-1", "app-1"))
    /\ Len(call.scanner_names) = 2
    /\ state.in_progress = <<>>

\* the selected scanners of the loop of s (per-app or account-level) that
\* come before s in SCANNER_ORDER
Before(s) ==
    {t \in SeqToSet(config.scanners) : PerApp(t) = PerApp(s) /\ Priority(t) < Priority(s)}

\* C36: the scanners of one resource (an app of a region, or the region
\* itself for the account-level scanners) run one at a time, and a unit is
\* reached by its loop only when every selected scanner of that loop that
\* precedes it in SCANNER_ORDER has been closed (completed, failed or
\* skipped) for the same resource, whatever the order of --scanner.
C36_ScannersInPriorityOrder ==
    /\ \A u, v \in Admitted :
          (u[1] = v[1] /\ u[2][2] = v[2][2] /\ u[2][3] = v[2][3]) => u = v
    /\ \A u \in DOMAIN ulog : \A t \in Before(u[2][1]) :
          LET w == <<u[1], CkKey(t, u[2][2], u[2][3])>>
          IN w \in DOMAIN ulog /\ ulog[w] \in {"ok", "err", "skipped"}

C36_Witness ==
    /\ config.scanners = MainSelection
    /\ \E u \in InFlight :
          /\ u[2][1] = "segments"
          /\ <<u[1], CkKey("applications", u[2][2], u[2][3])>> \in UnitsLogged("ok")
    /\ Cardinality(InFlight) > 1

\* futures of map_parallel submitted and not yet finished
Dispatched == queue # <<>> \/ DOMAIN running # {}

\* C37: per-app scans exist only while the main thread is inside
\* map_parallel for the current region of the current account (or
\* leaving it on SystemExit), which stay the same until all of them have
\* finished; at most max_workers of them run at once; nothing is scanned
\* for an account before its discovery has returned; the account-level
\* scanners of a region are reached only when no dispatched scan is left.
C37_OneRegionAtATime ==
    /\ [](Dispatched => pc \in {"submit", "wait", "quitting"})
    /\ [](Cardinality(DOMAIN running) <= config.max_workers)
    /\ [](\A u \in InFlight \cup DOMAIN ulog : u[1] <= Len(found))
    /\ [](pc \in {"acct_head", "resolve", "discover"} => InFlight = {} /\ ~Dispatched)
    /\ [](pc \in {"as_head", "as_mark", "as_scan"} => ~Dispatched)
    /\ [][Dispatched => acct' = acct /\ regionsTodo' = regionsTodo]_vars

C37_Witness ==
    /\ config.max_workers = 1
    /\ pc = "wait"
    /\ queue # <<>>
    /\ Cardinality(InFlight) = 1
    /\ DOMAIN ulog # {}

\* the retryable failures a thread's call_with_retry has counted
Failures(t) ==
    acq[t].slept + (IF acq[t].outcome = "RateLimitExceededError" THEN 1 ELSE 0)

\* C38: when the calls of both threads have ended, total_retries is the
\* number of retryable failures the two threads observed (no update of
\* the counter is lost).
C38_NoLostRetry ==
    (\A t \in LimThreads : acq[t].pc = "done") =>
        limiter.total_retries = Failures("r1") + Failures("r2")

\* the time one token takes at the refill rate has passed since _refill
\* last ran
TokenTimePassed == (clock - limiter.last_refill) * limiter.refill_rate >= Whole

\* C39: for every positive requests_per_second, a turn of acquire()'s loop
\* made once the time of one token has passed since the last refill finds a
\* token, so that a waiting acquire() returns as time advances.
C39_AcquireReturns ==
    \A t \in LimThreads :
        (acq[t].pc = "lock" /\ Unlocked(limiter) /\ TokenTimePassed) =>
            HasToken(Refilled(limiter, clock))

\* the app ids the recorded discovery holds for a region
Recorded(region) ==
    UNION { SeqToSet(get_discovered_regions(state)[n][2]) :
              n \in { m \in 1..Len(get_discovered_regions(state)) :
                        get_discovered_regions(state)[m][1] = region } }

\* C40: once discovery is recorded, the entry of every probed region holds
\* every application the region's listing reports on any of its pages, and
\* when the run has ended each of them is completed for every active
\* per-app scanner.
C40_EveryListedAppDiscovered ==
    /\ call.pc \in {"scan", "done"} =>
          \A n \in 1..Len(call.regions) :
              Listed(call.listing[call.regions[n]]) \subseteq Recorded(call.regions[n])
    /\ call.pc = "done" =>
          \A n \in 1..Len(call.regions) : \A a \in Listed(call.listing[call.regions[n]]) :
              \A k \in 1..Len(PageScanners) :
                  is_completed(state, CkKey(PageScanners[k], call.regions[n], a))

====
